---- MODULE Spec2Model ----
(***************************************************************************)
(* A model of the commit-search pipeline of the TypeScript Cody client:    *)
(*   parseSSE        (examples/typescript-5.7-cody-client/sse.ts)          *)
(*   searchCommits   (examples/typescript-5.7-cody-client/search.ts)       *)
(*   batch-review    (examples/typescript-5.7-cody-client/index.ts)        *)
(*   review          (examples/typescript-5.7-cody-client/review.ts)       *)
(* and of the start of the example programs, up to their first request.    *)
(*                                                                         *)
(* Text is a sequence of one-character strings.  The response body is a    *)
(* sequence of bytes; an ASCII byte is written as its character, and the   *)
(* two bytes of one two-byte UTF-8 character are written "C3" and "A9".    *)
(* JSON values are records [t, s, k]: t the kind, s the scalar text, k the *)
(* children (array elements, or object members [t |-> "mem", s |-> key,    *)
(* k |-> <<value>>]).                                                      *)
(***************************************************************************)
EXTENDS Integers, Sequences, FiniteSets, TLC

VARIABLES
    pc,             \* position of the searchCommits invocation
    response,       \* what fetch resolved with: [ok, status, hasBody]
    stream,         \* transport: bytes of the body not yet delivered
    streamState,    \* transport: "open", "closed" (done signalled), "errored"
    requests,       \* number of HTTP requests issued (fetch calls)
    readerAcquired, \* response.body.getReader() was called
    reads,          \* number of reader.read() calls that returned a chunk
    out,            \* search.ts `out`: the decoded chunks, in arrival order
    responseBody,   \* search.ts `responseBody` = parseSSE's argument
    parseCalls,     \* number of calls of parseSSE
    lines,          \* sse.ts `lines`
    li,             \* index of the next line of the for loop of parseSSE
    events,         \* sse.ts `events`
    currentEvent,   \* sse.ts `currentEvent`
    ei,             \* index of the next event of the filter loop
    commitResults,  \* search.ts `commitResults`
    result,         \* settlement of the promise: [state, value, error]
    log,            \* console.error calls of searchCommits, in order
    cmd,            \* position of the batch-review command
    maxCommits,     \* index.ts `maxCommits`: the text of --max-commits
    reviews,        \* the promises Promise.all waits for, one per commit
    stdout,         \* console.log calls of the command, in order
    stderr,         \* console.error calls of the command, in order
    calls,          \* concurrent invocations of searchCommits, by number
    program         \* a run of an example program: [name, pc, env, ...]

searchVars == <<pc, response, stream, streamState, requests, readerAcquired,
                reads, out, responseBody, parseCalls, lines, li, events,
                currentEvent, ei, commitResults, result, log>>
commandVars == <<cmd, maxCommits, reviews, stdout, stderr>>
vars == <<searchVars, commandVars, calls, program>>

----------------------------------------------------------------------------
(* Bounds of the model.                                                    *)

\* Largest number of blank-line separated blocks in a parsed buffer.
MaxBlocks == 2
\* Largest number of chunks the transport cuts one body into.
MaxChunks == 2
\* Number of invocations of searchCommits that run at the same time.
MaxCalls == 2

----------------------------------------------------------------------------
(* String primitives of JavaScript, on sequences of characters.            *)

\* Characters String.prototype.trim removes (those of the model's alphabet).
IsTrimSpace(c) == c \in {" ", "\t", "\r", "\n"}

\* s.startsWith(p)
StartsWith(s, p) ==
    /\ Len(s) >= Len(p)
    /\ \A i \in 1..Len(p) : s[i] = p[i]

\* s.slice(n): the characters after the first n.
Slice(s, n) == IF n >= Len(s) THEN <<>> ELSE SubSeq(s, n + 1, Len(s))

RECURSIVE TrimStart(_)
TrimStart(s) ==
    IF s # <<>> /\ IsTrimSpace(Head(s)) THEN TrimStart(Tail(s)) ELSE s

RECURSIVE TrimEnd(_)
TrimEnd(s) ==
    IF s # <<>> /\ IsTrimSpace(s[Len(s)])
    THEN TrimEnd(SubSeq(s, 1, Len(s) - 1))
    ELSE s

\* s.trim()
Trim(s) == TrimEnd(TrimStart(s))

\* Index of the first occurrence of character c in s at or after p, or 0.
RECURSIVE IndexOf(_, _, _)
IndexOf(s, c, p) ==
    IF p > Len(s) THEN 0
    ELSE IF s[p] = c THEN p
    ELSE IndexOf(s, c, p + 1)

\* Split with a carriage return before the line feed taken as part of the
\* line ending.
RECURSIVE Split_Normalizing(_)
Split_Normalizing(s) ==
    LET n == IndexOf(s, "\n", 1)
        StripCR(l) == IF l # <<>> /\ l[Len(l)] = "\r"
                      THEN SubSeq(l, 1, Len(l) - 1) ELSE l
    IN  IF n = 0 THEN <<s>>
        ELSE <<StripCR(SubSeq(s, 1, n - 1))>> \o Split_Normalizing(Slice(s, n))

\* s.split("\n"): always at least one piece; the empty string gives <<"">>.
RECURSIVE Split(_)
Split(s) ==
    LET n == IndexOf(s, "\n", 1)
    IN  IF n = 0 THEN <<s>>
        ELSE <<SubSeq(s, 1, n - 1)>> \o Split(Slice(s, n))

\* chunks.join(""): the concatenation of the chunks in order.
RECURSIVE Join(_)
Join(chunks) ==
    IF chunks = <<>> THEN <<>> ELSE Head(chunks) \o Join(Tail(chunks))

----------------------------------------------------------------------------
(* JSON values and JSON.parse / JSON.stringify.  The grammar is JSON's,    *)
(* restricted to the alphabet of the model: the literals, unsigned         *)
(* integers, strings without escapes, arrays and objects, with JSON's      *)
(* insignificant white space.                                              *)

JNull == [t |-> "null", s |-> <<>>, k |-> <<>>]
JTrue == [t |-> "true", s |-> <<>>, k |-> <<>>]
JFalse == [t |-> "false", s |-> <<>>, k |-> <<>>]
JNum(digits) == [t |-> "num", s |-> digits, k |-> <<>>]
JStr(chars) == [t |-> "str", s |-> chars, k |-> <<>>]
JArr(elems) == [t |-> "arr", s |-> <<>>, k |-> elems]
JMem(key, v) == [t |-> "mem", s |-> key, k |-> <<v>>]
JObj(members) == [t |-> "obj", s |-> <<>>, k |-> members]

Digits == {"0", "1", "2", "3", "4", "5", "6", "7", "8", "9"}
IsJsonSpace(c) == c \in {" ", "\t", "\r", "\n"}

\* The outcome of a parse step: ok, the value, the position after it.
ParseFail == [ok |-> FALSE, v |-> JNull, p |-> 0]
ParseOk(v, p) == [ok |-> TRUE, v |-> v, p |-> p]

RECURSIVE SkipSpace(_, _)
SkipSpace(s, p) ==
    IF p <= Len(s) /\ IsJsonSpace(s[p]) THEN SkipSpace(s, p + 1) ELSE p

\* The word w stands in s at position p.
HasWord(s, p, w) ==
    /\ p + Len(w) - 1 <= Len(s)
    /\ SubSeq(s, p, p + Len(w) - 1) = w

RECURSIVE DigitsEnd(_, _)
DigitsEnd(s, p) ==
    IF p <= Len(s) /\ s[p] \in Digits THEN DigitsEnd(s, p + 1) ELSE p

\* An unsigned integer at p: "0", or a non-zero digit and more digits.
ParseNumber(s, p) ==
    LET e == IF s[p] = "0" THEN p + 1 ELSE DigitsEnd(s, p)
    IN  ParseOk(JNum(SubSeq(s, p, e - 1)), e)

\* A string at p (s[p] is the opening quote): up to the next quote, and
\* no control character inside.
ParseString(s, p) ==
    LET q == IndexOf(s, "\"", p + 1)
    IN  IF q = 0 THEN ParseFail
        ELSE IF \E i \in (p + 1)..(q - 1) : s[i] \in {"\n", "\r", "\t"}
        THEN ParseFail
        ELSE ParseOk(JStr(SubSeq(s, p + 1, q - 1)), q + 1)

\* obj[key] = v: a repeated key keeps its place and takes the last value.
RECURSIVE SetMember(_, _, _)
SetMember(members, key, v) ==
    IF members = <<>> THEN <<JMem(key, v)>>
    ELSE IF Head(members).s = key THEN <<JMem(key, v)>> \o Tail(members)
    ELSE <<Head(members)>> \o SetMember(Tail(members), key, v)

RECURSIVE ParseValue(_, _)
RECURSIVE ParseElements(_, _, _)
RECURSIVE ParseMembers(_, _, _)

ParseValue(s, p0) ==
    LET p == SkipSpace(s, p0)
    IN  IF p > Len(s) THEN ParseFail
        ELSE CASE s[p] = "n" ->
                    IF HasWord(s, p, <<"n", "u", "l", "l">>)
                    THEN ParseOk(JNull, p + 4) ELSE ParseFail
               [] s[p] = "t" ->
                    IF HasWord(s, p, <<"t", "r", "u", "e">>)
                    THEN ParseOk(JTrue, p + 4) ELSE ParseFail
               [] s[p] = "f" ->
                    IF HasWord(s, p, <<"f", "a", "l", "s", "e">>)
                    THEN ParseOk(JFalse, p + 5) ELSE ParseFail
               [] s[p] \in Digits -> ParseNumber(s, p)
               [] s[p] = "\"" -> ParseString(s, p)
               [] s[p] = "[" ->
                    LET q == SkipSpace(s, p + 1)
                    IN  IF q <= Len(s) /\ s[q] = "]"
                        THEN ParseOk(JArr(<<>>), q + 1)
                        ELSE ParseElements(s, p + 1, <<>>)
               [] s[p] = "{" ->
                    LET q == SkipSpace(s, p + 1)
                    IN  IF q <= Len(s) /\ s[q] = "}"
                        THEN ParseOk(JObj(<<>>), q + 1)
                        ELSE ParseMembers(s, p + 1, <<>>)
               [] OTHER -> ParseFail

\* The elements of an array after "[" or ",": a value, then "," or "]".
ParseElements(s, p, acc) ==
    LET r == ParseValue(s, p)
        q == SkipSpace(s, r.p)
    IN  IF ~r.ok \/ q > Len(s) THEN ParseFail
        ELSE IF s[q] = "," THEN ParseElements(s, q + 1, Append(acc, r.v))
        ELSE IF s[q] = "]" THEN ParseOk(JArr(Append(acc, r.v)), q + 1)
        ELSE ParseFail

\* The members of an object after "{" or ",": "key" : value, then "," or "}".
ParseMembers(s, p, acc) ==
    LET q == SkipSpace(s, p)
        key == ParseString(s, q)
        c == SkipSpace(s, key.p)
        r == ParseValue(s, c + 1)
        e == SkipSpace(s, r.p)
    IN  IF q > Len(s) \/ s[q] # "\"" THEN ParseFail
        ELSE IF ~key.ok \/ c > Len(s) \/ s[c] # ":" THEN ParseFail
        ELSE IF ~r.ok \/ e > Len(s) THEN ParseFail
        ELSE IF s[e] = ","
        THEN ParseMembers(s, e + 1, SetMember(acc, key.v.s, r.v))
        ELSE IF s[e] = "}"
        THEN ParseOk(JObj(SetMember(acc, key.v.s, r.v)), e + 1)
        ELSE ParseFail

\* JSON.parse(s): one value and nothing but white space after it; ok is
\* FALSE where JSON.parse throws a SyntaxError.
JSONParse(s) ==
    LET r == ParseValue(s, 1)
    IN  IF r.ok /\ SkipSpace(s, r.p) = Len(s) + 1 THEN r ELSE ParseFail

\* JSON.stringify(v), without indentation.
RECURSIVE JSONStringify(_)
RECURSIVE StringifyAll(_)
JSONStringify(v) ==
    CASE v.t = "null" -> <<"n", "u", "l", "l">>
      [] v.t = "true" -> <<"t", "r", "u", "e">>
      [] v.t = "false" -> <<"f", "a", "l", "s", "e">>
      [] v.t = "num" -> v.s
      [] v.t = "str" -> <<"\"">> \o v.s \o <<"\"">>
      [] v.t = "arr" -> <<"[">> \o StringifyAll(v.k) \o <<"]">>
      [] v.t = "obj" -> <<"{">> \o StringifyAll(v.k) \o <<"}">>
      [] v.t = "mem" ->
           <<"\"">> \o v.s \o <<"\"", ":">> \o JSONStringify(v.k[1])

\* The texts of the values of vs, separated by commas.
StringifyAll(vs) ==
    IF vs = <<>> THEN <<>>
    ELSE IF Len(vs) = 1 THEN JSONStringify(vs[1])
    ELSE JSONStringify(vs[1]) \o <<",">> \o StringifyAll(Tail(vs))

\* JavaScript's ToBoolean of a decoded JSON value.
Truthy(v) ==
    /\ v.t \notin {"null", "false"}
    /\ ~(v.t = "num" /\ v.s = <<"0">>)
    /\ ~(v.t = "str" /\ v.s = <<>>)

\* obj[key] === the string word (FALSE when obj has no such property).
PropertyIs(obj, key, word) ==
    /\ obj.t = "obj"
    /\ \E i \in 1..Len(obj.k) : obj.k[i].s = key /\ obj.k[i].k[1] = JStr(word)

----------------------------------------------------------------------------
(* parseSSE (sse.ts).                                                      *)

EventPrefix == <<"e", "v", "e", "n", "t", ":">>
DataPrefix == <<"d", "a", "t", "a", ":">>

\* `let currentEvent: Partial<SSE> = {}`: neither field is set.
EmptyEvent ==
    [hasEvent |-> FALSE, event |-> <<>>, hasData |-> FALSE, data |-> JNull]

\* IsComplete with `||` for `&&`.
IsComplete_EitherField(cur) ==
    \/ cur.hasEvent /\ cur.event # <<>>
    \/ cur.hasData /\ Truthy(cur.data)

\* `currentEvent.event && currentEvent.data`: both fields truthy.
IsComplete(cur) ==
    /\ cur.hasEvent /\ cur.event # <<>>
    /\ cur.hasData /\ Truthy(cur.data)

\* The state of a run of parseSSE before its first line.
ParseBegin == [events |-> <<>>, currentEvent |-> EmptyEvent, threw |-> FALSE]

\* ParseLine with a bad payload skipped instead of thrown.
ParseLine_SkipBadJson(st, line) ==
    IF StartsWith(line, EventPrefix)
    THEN [st EXCEPT !.currentEvent.hasEvent = TRUE,
                    !.currentEvent.event = Trim(Slice(line, 6))]
    ELSE IF StartsWith(line, DataPrefix)
    THEN LET r == JSONParse(Trim(Slice(line, Len(DataPrefix))))
         IN  IF r.ok
             THEN [st EXCEPT !.currentEvent.hasData = TRUE,
                             !.currentEvent.data = r.v]
             ELSE st
    ELSE IF line = <<>> /\ IsComplete(st.currentEvent)
    THEN [st EXCEPT !.events = Append(st.events, st.currentEvent),
                    !.currentEvent = EmptyEvent]
    ELSE st

\* ParseLine with any line that is no field line ending the block.
ParseLine_OtherEndsBlock(st, line) ==
    IF StartsWith(line, EventPrefix)
    THEN [st EXCEPT !.currentEvent.hasEvent = TRUE,
                    !.currentEvent.event = Trim(Slice(line, 6))]
    ELSE IF StartsWith(line, DataPrefix)
    THEN LET r == JSONParse(Trim(Slice(line, Len(DataPrefix))))
         IN  IF r.ok
             THEN [st EXCEPT !.currentEvent.hasData = TRUE,
                             !.currentEvent.data = r.v]
             ELSE [st EXCEPT !.threw = TRUE]
    ELSE IF IsComplete(st.currentEvent)
    THEN [st EXCEPT !.events = Append(st.events, st.currentEvent),
                    !.currentEvent = EmptyEvent]
    ELSE st

\* ParseLine with the record discarded at every blank line.
ParseLine_DiscardIncomplete(st, line) ==
    IF StartsWith(line, EventPrefix)
    THEN [st EXCEPT !.currentEvent.hasEvent = TRUE,
                    !.currentEvent.event = Trim(Slice(line, 6))]
    ELSE IF StartsWith(line, DataPrefix)
    THEN LET r == JSONParse(Trim(Slice(line, Len(DataPrefix))))
         IN  IF r.ok
             THEN [st EXCEPT !.currentEvent.hasData = TRUE,
                             !.currentEvent.data = r.v]
             ELSE [st EXCEPT !.threw = TRUE]
    ELSE IF line = <<>> /\ IsComplete(st.currentEvent)
    THEN [st EXCEPT !.events = Append(st.events, st.currentEvent),
                    !.currentEvent = EmptyEvent]
    ELSE IF line = <<>>
    THEN [st EXCEPT !.currentEvent = EmptyEvent]
    ELSE st

\* ParseLine with the record kept after it was emitted.
ParseLine_NoReset(st, line) ==
    IF StartsWith(line, EventPrefix)
    THEN [st EXCEPT !.currentEvent.hasEvent = TRUE,
                    !.currentEvent.event = Trim(Slice(line, 6))]
    ELSE IF StartsWith(line, DataPrefix)
    THEN LET r == JSONParse(Trim(Slice(line, Len(DataPrefix))))
         IN  IF r.ok
             THEN [st EXCEPT !.currentEvent.hasData = TRUE,
                             !.currentEvent.data = r.v]
             ELSE [st EXCEPT !.threw = TRUE]
    ELSE IF line = <<>> /\ IsComplete(st.currentEvent)
    THEN [st EXCEPT !.events = Append(st.events, st.currentEvent)]
    ELSE st

\* ParseLine with a second `event:` line added to the name.
ParseLine_Concatenating(st, line) ==
    IF StartsWith(line, EventPrefix)
    THEN [st EXCEPT !.currentEvent.hasEvent = TRUE,
                    !.currentEvent.event =
                        st.currentEvent.event \o Trim(Slice(line, 6))]
    ELSE IF StartsWith(line, DataPrefix)
    THEN LET r == JSONParse(Trim(Slice(line, Len(DataPrefix))))
         IN  IF r.ok
             THEN [st EXCEPT !.currentEvent.hasData = TRUE,
                             !.currentEvent.data = r.v]
             ELSE [st EXCEPT !.threw = TRUE]
    ELSE IF line = <<>> /\ IsComplete(st.currentEvent)
    THEN [st EXCEPT !.events = Append(st.events, st.currentEvent),
                    !.currentEvent = EmptyEvent]
    ELSE st

\* One iteration of `for (const line of lines)`.
ParseLine(st, line) ==
    IF StartsWith(line, EventPrefix)
    THEN [st EXCEPT !.currentEvent.hasEvent = TRUE,
                    !.currentEvent.event = Trim(Slice(line, 6))]
    ELSE IF StartsWith(line, DataPrefix)
    THEN LET r == JSONParse(Trim(Slice(line, Len(DataPrefix))))
         IN  IF r.ok
             THEN [st EXCEPT !.currentEvent.hasData = TRUE,
                             !.currentEvent.data = r.v]
             ELSE [st EXCEPT !.threw = TRUE]
    ELSE IF line = <<>> /\ IsComplete(st.currentEvent)
    THEN [st EXCEPT !.events = Append(st.events, st.currentEvent),
                    !.currentEvent = EmptyEvent]
    ELSE st

\* ParseFlush without its test.
ParseFlush_Unconditional(st) ==
    [st EXCEPT !.events = Append(st.events, st.currentEvent)]

\* "Push the last event if it's complete", after the loop.
ParseFlush(st) ==
    IF IsComplete(st.currentEvent)
    THEN [st EXCEPT !.events = Append(st.events, st.currentEvent)]
    ELSE st

\* The loop over the lines from the i-th on; it stops where a line throws.
RECURSIVE ParseLines(_, _, _)
ParseLines(st, ls, i) ==
    IF i > Len(ls) \/ st.threw THEN st
    ELSE ParseLines(ParseLine(st, ls[i]), ls, i + 1)

\* parseSSE(reponseBody): [threw, events].
ParseSSE(body) ==
    LET st == ParseLines(ParseBegin, Split(body), 1)
    IN  IF st.threw THEN st ELSE ParseFlush(st)

----------------------------------------------------------------------------
(* The filter loops of searchCommits (search.ts).                          *)

Matches == <<"m", "a", "t", "c", "h", "e", "s">>
TypeKey == <<"t", "y", "p", "e">>
Commit == <<"c", "o", "m", "m", "i", "t">>

\* `for (const match of event.data)` throws a TypeError unless the data is
\* iterable: of the JSON values, arrays and strings are.
Iterable(data) == data.t \in {"arr", "str"}

\* The index of the first element whose `match.type` throws (null), or 0.
RECURSIVE FirstNull(_, _)
FirstNull(elems, i) ==
    IF i > Len(elems) THEN 0
    ELSE IF elems[i].t = "null" THEN i
    ELSE FirstNull(elems, i + 1)

\* `match.type === "commit"`
IsCommit(match) == PropertyIs(match, TypeKey, Commit)

\* FilterOne without `if (event.event !== "matches") continue`.
FilterOne_AnyName(event) ==
    IF ~Iterable(event.data) THEN [threw |-> TRUE, pushed |-> <<>>]
    ELSE IF event.data.t = "str" THEN [threw |-> FALSE, pushed |-> <<>>]
    ELSE LET n == FirstNull(event.data.k, 1)
             seen == IF n = 0 THEN event.data.k
                     ELSE SubSeq(event.data.k, 1, n - 1)
         IN  [threw |-> n # 0, pushed |-> SelectSeq(seen, IsCommit)]

\* FilterOne passing over what it cannot walk or read.
FilterOne_Lenient(event) ==
    IF event.event # Matches THEN [threw |-> FALSE, pushed |-> <<>>]
    ELSE IF event.data.t # "arr" THEN [threw |-> FALSE, pushed |-> <<>>]
    ELSE [threw |-> FALSE, pushed |-> SelectSeq(event.data.k, IsCommit)]

\* The body of `for (const event of events)` for one event:
\* [threw, pushed], pushed being what it appends to commitResults.
FilterOne(event) ==
    IF event.event # Matches THEN [threw |-> FALSE, pushed |-> <<>>]
    ELSE IF ~Iterable(event.data) THEN [threw |-> TRUE, pushed |-> <<>>]
    ELSE IF event.data.t = "str" THEN [threw |-> FALSE, pushed |-> <<>>]
    ELSE LET n == FirstNull(event.data.k, 1)
             seen == IF n = 0 THEN event.data.k
                     ELSE SubSeq(event.data.k, 1, n - 1)
         IN  [threw |-> n # 0, pushed |-> SelectSeq(seen, IsCommit)]

----------------------------------------------------------------------------
(* The transport and the decoder.                                          *)

\* new TextDecoder().decode(value), each chunk on its own: the two bytes
\* "C3" "A9" in one chunk are the character "E9"; a byte of a character
\* that the chunk does not hold whole becomes U+FFFD.
RECURSIVE Decode(_)
Decode(bytes) ==
    IF bytes = <<>> THEN <<>>
    ELSE IF Head(bytes) = "C3" /\ Len(bytes) >= 2 /\ bytes[2] = "A9"
    THEN <<"E9">> \o Decode(Tail(Tail(bytes)))
    ELSE IF Head(bytes) \in {"C3", "A9"}
    THEN <<"FFFD">> \o Decode(Tail(bytes))
    ELSE <<Head(bytes)>> \o Decode(Tail(bytes))

\* The server's UTF-8 encoding of a text.
RECURSIVE Encode(_)
Encode(text) ==
    IF text = <<>> THEN <<>>
    ELSE IF Len(text) = 1
         THEN (IF text[1] = "E9" THEN <<"C3", "A9">> ELSE text)
    ELSE LET half == Len(text) \div 2
         IN  Encode(SubSeq(text, 1, half))
                \o Encode(SubSeq(text, half + 1, Len(text)))

----------------------------------------------------------------------------
(* The inputs: the response bodies the server may send.                    *)

OidKey == <<"o", "i", "d">>
CommitObj(oid) == JObj(<<JMem(TypeKey, JStr(Commit)), JMem(OidKey, JStr(oid))>>)
FileObj(oid) == JObj(<<JMem(TypeKey, JStr(<<"f", "i", "l", "e">>)),
                       JMem(OidKey, JStr(oid))>>)

EventLine(name) == EventPrefix \o <<" ">> \o name
DataLine(text) == DataPrefix \o <<" ">> \o text
DataOf(v) == DataLine(JSONStringify(v))

\* The blocks a body is made of: each a sequence of lines.
BlockSet ==
    { <<EventLine(Matches), DataOf(JArr(<<CommitObj(<<"a">>)>>))>>,
      <<EventLine(Matches),
        DataOf(JArr(<<FileObj(<<"c">>), CommitObj(<<"b">>)>>))>>,
      <<EventLine(<<"x">>), DataOf(JArr(<<CommitObj(<<"b">>)>>))>>,
      <<EventLine(<<"x">>), DataOf(JObj(<<JMem(TypeKey, JStr(Commit))>>))>>,
      <<EventLine(Matches),
        DataOf(JArr(<<CommitObj(<<"b">>), CommitObj(<<"b">>)>>))>>,
      <<EventLine(Matches), DataOf(JArr(<<CommitObj(<<"a">>)>>)),
        EventLine(<<"x">>)>>,
      <<EventLine(Matches), DataOf(JNum(<<"0">>))>>,
      <<EventLine(Matches), DataOf(JNum(<<"1">>))>>,
      <<EventLine(Matches), DataOf(JArr(<<JNull>>))>>,
      <<EventLine(Matches), DataLine(<<"[", "1", ",">>)>>,
      <<EventLine(Matches)>>,
      <<DataOf(JArr(<<CommitObj(<<"a">>)>>))>>,
      <<EventPrefix, DataOf(JArr(<<CommitObj(<<"a">>)>>))>>,
      <<<<"i", "d", ":", " ", "1">>, EventLine(Matches), DataOf(JStr(<<"s">>))>> }

\* Sequences of at most n blocks.
RECURSIVE BlockLists(_)
BlockLists(n) ==
    IF n = 0 THEN {<<>>}
    ELSE LET shorter == BlockLists(n - 1)
         IN  shorter \cup
             {Append(bs, b) : bs \in {x \in shorter : Len(x) = n - 1},
                              b \in BlockSet}

\* n line feeds.
LineFeeds(n) == [i \in 1..n |-> "\n"]

\* The lines of a block, each but the last followed by a line feed.
RECURSIVE BlockText(_)
BlockText(block) ==
    IF block = <<>> THEN <<>>
    ELSE IF Len(block) = 1 THEN block[1]
    ELSE block[1] \o <<"\n">> \o BlockText(Tail(block))

\* The text of the blocks: a blank line ends every block but the last,
\* which `tail` line feeds follow.
RECURSIVE BodyText(_, _)
BodyText(blocks, tail) ==
    IF blocks = <<>> THEN LineFeeds(tail)
    ELSE IF Len(blocks) = 1 THEN BlockText(blocks[1]) \o LineFeeds(tail)
    ELSE BlockText(blocks[1]) \o LineFeeds(2) \o BodyText(Tail(blocks), tail)

\* The texts parseSSE is run on.
ParseInputs == {BodyText(bs, tail) : bs \in BlockLists(MaxBlocks), tail \in 0..2}

\* The bodies (as bytes) of the responses of the full invocation.
Bodies ==
    { <<>>,
      Encode(BodyText(<<<<EventLine(Matches),
                          DataOf(JArr(<<CommitObj(<<"E9">>)>>))>>>>, 2)),
      Encode(BodyText(<<<<EventLine(Matches), DataLine(<<"[", "1", ",">>)>>>>, 1)),
      Encode(BodyText(<<<<EventLine(<<"x">>), DataOf(JNum(<<"1">>))>>,
                        <<EventLine(Matches), DataOf(JNum(<<"1">>))>>>>, 0)) }

\* What fetch may resolve with.
Responses ==
    { [ok |-> TRUE, status |-> 200, statusText |-> "OK", hasBody |-> TRUE],
      [ok |-> TRUE, status |-> 204, statusText |-> "No Content",
       hasBody |-> FALSE],
      [ok |-> FALSE, status |-> 500, statusText |-> "Internal Server Error",
       hasBody |-> TRUE],
      [ok |-> FALSE, status |-> 404, statusText |-> "Not Found",
       hasBody |-> FALSE] }

----------------------------------------------------------------------------
(* searchCommits (search.ts), one invocation.                              *)

\* A response has the bytes its body stream delivers (none when it has no
\* body); an error has the text of the response body its message quotes.
NoResponse ==
    [ok |-> FALSE, status |-> 0, statusText |-> "", hasBody |-> FALSE,
     body |-> <<>>]
NoError ==
    [name |-> "", origin |-> "", status |-> 0, statusText |-> "",
     body |-> <<>>]
Pending == [state |-> "pending", value |-> <<>>, error |-> NoError]

\* An error thrown at `origin`; the one of a bad status has the status and
\* the status text in its message, and nothing of the response body, which
\* is not read.
Error(name, origin) ==
    [name |-> name, origin |-> origin, status |-> 0, statusText |-> "",
     body |-> <<>>]
StatusError(r) ==
    [name |-> "Error", origin |-> "status", status |-> r.status,
     statusText |-> r.statusText, body |-> <<>>]

\* LogAndThrow with a new attempt in place of the throw.
LogAndThrow_Retry(error) ==
    /\ log' = Append(log, error.origin)
    /\ pc' = "fetch"
    /\ UNCHANGED result

\* `console.error(...); throw error`: the invocation rejects with error.
LogAndThrow(error) ==
    /\ log' = Append(log, error.origin)
    /\ result' = [state |-> "rejected", value |-> <<>>, error |-> error]
    /\ pc' = "rejected"

\* An exception no handler of searchCommits catches.
Throw(error) ==
    /\ result' = [state |-> "rejected", value |-> <<>>, error |-> error]
    /\ pc' = "rejected"
    /\ UNCHANGED log

\* No batch-review command runs, and no other invocation.
NoCommand ==
    /\ cmd = "none"
    /\ maxCommits = <<>>
    /\ reviews = <<>>
    /\ stdout = <<>>
    /\ stderr = <<>>
NoCalls == calls = <<>>

\* No example program is run as a process of its own.
NoProgram == program = [name |-> "none"]

\* The variables of the steps after the read loop, before these steps.
NotParsedYet ==
    /\ responseBody = <<>>
    /\ parseCalls = 0
    /\ lines = <<>>
    /\ li = 1
    /\ events = <<>>
    /\ currentEvent = EmptyEvent
    /\ ei = 1
    /\ commitResults = <<>>
    /\ result = Pending
    /\ log = <<>>

\* The call of searchCommits.
Init ==
    /\ pc = "fetch"
    /\ response = NoResponse
    /\ stream = <<>>
    /\ streamState = "open"
    /\ requests = 0
    /\ readerAcquired = FALSE
    /\ reads = 0
    /\ out = <<>>
    /\ NotParsedYet
    /\ NoCommand /\ NoCalls /\ NoProgram

\* `response = await fetch(...)` resolves.
Fetch ==
    /\ pc = "fetch"
    /\ requests' = requests + 1
    /\ \E r \in Responses, body \in Bodies :
          /\ response' = [ok |-> r.ok, status |-> r.status,
                           statusText |-> r.statusText,
                           hasBody |-> r.hasBody,
                           body |-> IF r.hasBody THEN body ELSE <<>>]
          /\ stream' = IF r.hasBody THEN body ELSE <<>>
    /\ pc' = "checkOk"
    /\ UNCHANGED <<streamState, readerAcquired, reads, out, responseBody,
                   parseCalls, lines, li, events, currentEvent, ei,
                   commitResults, result, log>>
    /\ UNCHANGED <<commandVars, calls, program>>

\* `await fetch(...)` rejects: logged and rethrown.
FetchThrows ==
    /\ pc = "fetch"
    /\ requests' = requests + 1
    /\ LogAndThrow(Error("TypeError", "fetch"))
    /\ UNCHANGED <<response, stream, streamState, readerAcquired, reads, out,
                   responseBody, parseCalls, lines, li, events, currentEvent,
                   ei, commitResults>>
    /\ UNCHANGED <<commandVars, calls, program>>

\* CheckOk without the test of response.ok.
CheckOk_Ignored ==
    /\ pc = "checkOk"
    /\ pc' = "checkBody"
    /\ UNCHANGED <<response, stream, streamState, requests, readerAcquired,
                   reads, out, responseBody, parseCalls, lines, li, events,
                   currentEvent, ei, commitResults, result, log>>
    /\ UNCHANGED <<commandVars, calls, program>>

\* `if (!response.ok) { ... throw }`
CheckOk ==
    /\ pc = "checkOk"
    /\ IF ~response.ok
       THEN LogAndThrow(StatusError(response))
       ELSE pc' = "checkBody" /\ UNCHANGED <<result, log>>
    /\ UNCHANGED <<response, stream, streamState, requests, readerAcquired,
                   reads, out, responseBody, parseCalls, lines, li, events,
                   currentEvent, ei, commitResults>>
    /\ UNCHANGED <<commandVars, calls, program>>

\* `if (!response.body) { ... throw }`
CheckBody ==
    /\ pc = "checkBody"
    /\ IF ~response.hasBody
       THEN LogAndThrow(Error("Error", "nobody"))
       ELSE pc' = "getReader" /\ UNCHANGED <<result, log>>
    /\ UNCHANGED <<response, stream, streamState, requests, readerAcquired,
                   reads, out, responseBody, parseCalls, lines, li, events,
                   currentEvent, ei, commitResults>>
    /\ UNCHANGED <<commandVars, calls, program>>

\* `const reader = response.body.getReader()`
GetReader ==
    /\ pc = "getReader"
    /\ readerAcquired' = TRUE
    /\ pc' = "read"
    /\ UNCHANGED <<response, stream, streamState, requests, reads, out,
                   responseBody, parseCalls, lines, li, events, currentEvent,
                   ei, commitResults, result, log>>
    /\ UNCHANGED <<commandVars, calls, program>>

\* `await reader.read()` gives a chunk of n bytes: decoded and pushed.
ReadChunk ==
    /\ pc = "read"
    /\ reads < MaxChunks
    /\ \E n \in 0..Len(stream) :
          /\ reads = MaxChunks - 1 => n = Len(stream)
          /\ out' = Append(out, Decode(SubSeq(stream, 1, n)))
          /\ stream' = Slice(stream, n)
    /\ reads' = reads + 1
    /\ UNCHANGED <<pc, response, streamState, requests, readerAcquired,
                   responseBody, parseCalls, lines, li, events, currentEvent,
                   ei, commitResults, result, log>>
    /\ UNCHANGED <<commandVars, calls, program>>

\* `await reader.read()` gives done: the loop breaks.
ReadDone ==
    /\ pc = "read"
    /\ stream = <<>>
    /\ streamState' = "closed"
    /\ pc' = "parse"
    /\ UNCHANGED <<response, stream, requests, readerAcquired, reads, out,
                   responseBody, parseCalls, lines, li, events, currentEvent,
                   ei, commitResults, result, log>>
    /\ UNCHANGED <<commandVars, calls, program>>

\* ReadThrows with the error logged and not rethrown.
ReadThrows_Swallowed ==
    /\ pc = "read"
    /\ streamState' = "errored"
    /\ log' = Append(log, "read")
    /\ pc' = "parse"
    /\ UNCHANGED <<response, stream, requests, readerAcquired, reads, out,
                   responseBody, parseCalls, lines, li, events, currentEvent,
                   ei, commitResults, result>>
    /\ UNCHANGED <<commandVars, calls, program>>

\* `await reader.read()` rejects: logged and rethrown.
ReadThrows ==
    /\ pc = "read"
    /\ streamState' = "errored"
    /\ LogAndThrow(Error("Error", "read"))
    /\ UNCHANGED <<response, stream, requests, readerAcquired, reads, out,
                   responseBody, parseCalls, lines, li, events, currentEvent,
                   ei, commitResults>>
    /\ UNCHANGED <<commandVars, calls, program>>

\* ParseStart on what was read so far, before the reader is done.
ParseStart_BeforeDone ==
    /\ pc = "read"
    /\ reads > 0
    /\ responseBody' = Join(out)
    /\ parseCalls' = parseCalls + 1
    /\ lines' = Split(Join(out))
    /\ li' = 1
    /\ events' = ParseBegin.events
    /\ currentEvent' = ParseBegin.currentEvent
    /\ pc' = "parseLoop"
    /\ UNCHANGED <<response, stream, streamState, requests, readerAcquired,
                   reads, out, ei, commitResults, result, log>>
    /\ UNCHANGED <<commandVars, calls, program>>

\* `responseBody = out.join("")`, and parseSSE is entered: its three
\* declarations.
ParseStart ==
    /\ pc = "parse"
    /\ responseBody' = Join(out)
    /\ parseCalls' = parseCalls + 1
    /\ lines' = Split(Join(out))
    /\ li' = 1
    /\ events' = ParseBegin.events
    /\ currentEvent' = ParseBegin.currentEvent
    /\ pc' = "parseLoop"
    /\ UNCHANGED <<response, stream, streamState, requests, readerAcquired,
                   reads, out, ei, commitResults, result, log>>
    /\ UNCHANGED <<commandVars, calls, program>>

\* One iteration of the loop of parseSSE; a SyntaxError of JSON.parse
\* leaves parseSSE and is logged and rethrown by searchCommits.
ParseLineStep ==
    /\ pc = "parseLoop"
    /\ li <= Len(lines)
    /\ LET st == ParseLine([events |-> events, currentEvent |-> currentEvent,
                            threw |-> FALSE], lines[li])
       IN  IF st.threw
           THEN /\ LogAndThrow(Error("SyntaxError", "parse"))
                /\ UNCHANGED <<li, events, currentEvent>>
           ELSE /\ events' = st.events
                /\ currentEvent' = st.currentEvent
                /\ li' = li + 1
                /\ UNCHANGED <<pc, result, log>>
    /\ UNCHANGED <<response, stream, streamState, requests, readerAcquired,
                   reads, out, responseBody, parseCalls, lines, ei,
                   commitResults>>
    /\ UNCHANGED <<commandVars, calls, program>>

\* The end of parseSSE: the last event is pushed if complete, the events
\* are returned, and searchCommits starts its filter loop.
ParseReturn ==
    /\ pc = "parseLoop"
    /\ li > Len(lines)
    /\ events' = ParseFlush([events |-> events, currentEvent |-> currentEvent,
                             threw |-> FALSE]).events
    /\ commitResults' = <<>>
    /\ ei' = 1
    /\ pc' = "filter"
    /\ UNCHANGED <<response, stream, streamState, requests, readerAcquired,
                   reads, out, responseBody, parseCalls, lines, li,
                   currentEvent, result, log>>
    /\ UNCHANGED <<commandVars, calls, program>>

\* FilterEvent pushing a commit only if the results do not hold it yet.
RECURSIVE PushNew(_, _)
PushNew(acc, xs) ==
    IF xs = <<>> THEN acc
    ELSE PushNew(IF \E i \in 1..Len(acc) : acc[i] = Head(xs)
                 THEN acc ELSE Append(acc, Head(xs)),
                 Tail(xs))
FilterEvent_Dedup ==
    /\ pc = "filter"
    /\ ei <= Len(events)
    /\ LET r == FilterOne(events[ei])
       IN  /\ commitResults' = PushNew(commitResults, r.pushed)
           /\ IF r.threw
              THEN Throw(Error("TypeError", "filter")) /\ UNCHANGED ei
              ELSE ei' = ei + 1 /\ UNCHANGED <<pc, result, log>>
    /\ UNCHANGED <<response, stream, streamState, requests, readerAcquired,
                   reads, out, responseBody, parseCalls, lines, li, events,
                   currentEvent>>
    /\ UNCHANGED <<commandVars, calls, program>>

\* One iteration of `for (const event of events)`; its TypeError is caught
\* by nothing.
FilterEvent ==
    /\ pc = "filter"
    /\ ei <= Len(events)
    /\ LET r == FilterOne(events[ei])
       IN  /\ commitResults' = commitResults \o r.pushed
           /\ IF r.threw
              THEN Throw(Error("TypeError", "filter")) /\ UNCHANGED ei
              ELSE ei' = ei + 1 /\ UNCHANGED <<pc, result, log>>
    /\ UNCHANGED <<response, stream, streamState, requests, readerAcquired,
                   reads, out, responseBody, parseCalls, lines, li, events,
                   currentEvent>>
    /\ UNCHANGED <<commandVars, calls, program>>

\* Return with a promise that is never resolved.
Return_Unsettled ==
    /\ pc = "filter"
    /\ ei > Len(events)
    /\ pc' = "fulfilled"
    /\ UNCHANGED <<response, stream, streamState, requests, readerAcquired,
                   reads, out, responseBody, parseCalls, lines, li, events,
                   currentEvent, ei, commitResults, result, log>>
    /\ UNCHANGED <<commandVars, calls, program>>

\* `return commitResults`
Return ==
    /\ pc = "filter"
    /\ ei > Len(events)
    /\ result' = [state |-> "fulfilled", value |-> commitResults,
                  error |-> NoError]
    /\ pc' = "fulfilled"
    /\ UNCHANGED <<response, stream, streamState, requests, readerAcquired,
                   reads, out, responseBody, parseCalls, lines, li, events,
                   currentEvent, ei, commitResults, log>>
    /\ UNCHANGED <<commandVars, calls, program>>

Next ==
    \/ Fetch
    \/ FetchThrows
    \/ CheckOk
    \/ CheckBody
    \/ GetReader
    \/ ReadChunk
    \/ ReadDone
    \/ ReadThrows
    \/ ParseStart
    \/ ParseLineStep
    \/ ParseReturn
    \/ FilterEvent
    \/ Return

Spec == Init /\ [][Next]_vars

\* The invocation at the point where the stream of an ok response has ended
\* and its text, one of ParseInputs, was read in one chunk.
InitParse ==
    /\ pc = "parse"
    /\ stream = <<>>
    /\ streamState = "closed"
    /\ requests = 1
    /\ readerAcquired = TRUE
    /\ reads = 1
    /\ \E text \in ParseInputs :
          /\ response = [ok |-> TRUE, status |-> 200, statusText |-> "OK",
                         hasBody |-> TRUE, body |-> Encode(text)]
          /\ out = <<text>>
    /\ NotParsedYet
    /\ NoCommand /\ NoCalls /\ NoProgram

NextParse ==
    \/ ParseStart
    \/ ParseLineStep
    \/ ParseReturn
    \/ FilterEvent
    \/ Return

SpecParse == InitParse /\ [][NextParse]_vars

\* The text with a carriage return before every line feed.
RECURSIVE ToCRLF(_)
ToCRLF(text) ==
    IF text = <<>> THEN <<>>
    ELSE IF Len(text) = 1
         THEN (IF text[1] = "\n" THEN <<"\r", "\n">> ELSE text)
    ELSE LET half == Len(text) \div 2
         IN  ToCRLF(SubSeq(text, 1, half))
                \o ToCRLF(SubSeq(text, half + 1, Len(text)))

\* The texts of ParseInputs as a server sends them that ends its lines
\* with CR LF.
CRLFInputs == {ToCRLF(text) : text \in ParseInputs}

\* As InitParse, the text being one of CRLFInputs.
InitCRLF ==
    /\ pc = "parse"
    /\ stream = <<>>
    /\ streamState = "closed"
    /\ requests = 1
    /\ readerAcquired = TRUE
    /\ reads = 1
    /\ \E text \in CRLFInputs :
          /\ response = [ok |-> TRUE, status |-> 200, statusText |-> "OK",
                         hasBody |-> TRUE, body |-> Encode(text)]
          /\ out = <<text>>
    /\ NotParsedYet
    /\ NoCommand /\ NoCalls /\ NoProgram

SpecCRLF == InitCRLF /\ [][NextParse]_vars

\* Blocks that try the emission test and the in-progress record: the
\* payloads that decode to a falsy value, an empty event name, a block with
\* one field only, and a block with two `event:` and two `data:` lines.
RecordBlockSet ==
    { <<EventLine(Matches), DataOf(JArr(<<CommitObj(<<"a">>)>>))>>,
      <<EventLine(Matches), DataOf(JNull)>>,
      <<EventLine(Matches), DataOf(JFalse)>>,
      <<EventLine(Matches), DataOf(JNum(<<"0">>))>>,
      <<EventLine(Matches), DataOf(JStr(<<>>))>>,
      <<EventPrefix, DataOf(JArr(<<CommitObj(<<"b">>)>>))>>,
      <<EventLine(<<"x">>)>>,
      <<DataOf(JArr(<<CommitObj(<<"c">>)>>))>>,
      <<EventLine(<<"x">>), EventLine(Matches),
        DataOf(JArr(<<CommitObj(<<"b">>)>>)),
        DataOf(JArr(<<CommitObj(<<"a">>)>>))>> }

\* Sequences of at most n of these blocks.
RECURSIVE RecordBlockLists(_)
RecordBlockLists(n) ==
    IF n = 0 THEN {<<>>}
    ELSE LET shorter == RecordBlockLists(n - 1)
         IN  shorter \cup
             {Append(bs, b) : bs \in {x \in shorter : Len(x) = n - 1},
                              b \in RecordBlockSet}

\* The buffers made of them, ending with zero, one or two line feeds.
RecordInputs ==
    {BodyText(bs, tail) : bs \in RecordBlockLists(MaxBlocks), tail \in 0..2}

\* As InitParse, the text being one of RecordInputs.
InitRecord ==
    /\ pc = "parse"
    /\ stream = <<>>
    /\ streamState = "closed"
    /\ requests = 1
    /\ readerAcquired = TRUE
    /\ reads = 1
    /\ \E text \in RecordInputs :
          /\ response = [ok |-> TRUE, status |-> 200, statusText |-> "OK",
                         hasBody |-> TRUE, body |-> Encode(text)]
          /\ out = <<text>>
    /\ NotParsedYet
    /\ NoCommand /\ NoCalls /\ NoProgram

SpecRecord == InitRecord /\ [][NextParse]_vars

\* Blocks that try the walk of the filter loop: data that is an object, a
\* number, an array with a null element (alone, or after a commit), each
\* under the name matches and under another name, and a good block.
WalkBlockSet ==
    { <<EventLine(Matches), DataOf(JArr(<<CommitObj(<<"a">>)>>))>>,
      <<EventLine(Matches), DataOf(JObj(<<JMem(TypeKey, JStr(Commit))>>))>>,
      <<EventLine(Matches), DataOf(JNum(<<"1">>))>>,
      <<EventLine(Matches), DataOf(JArr(<<JNull>>))>>,
      <<EventLine(Matches), DataOf(JArr(<<CommitObj(<<"b">>), JNull>>))>>,
      <<EventLine(<<"x">>), DataOf(JObj(<<JMem(TypeKey, JStr(Commit))>>))>>,
      <<EventLine(<<"x">>), DataOf(JNum(<<"1">>))>>,
      <<EventLine(<<"x">>), DataOf(JArr(<<CommitObj(<<"b">>), JNull>>))>> }

\* Sequences of at most n of these blocks.
RECURSIVE WalkBlockLists(_)
WalkBlockLists(n) ==
    IF n = 0 THEN {<<>>}
    ELSE LET shorter == WalkBlockLists(n - 1)
         IN  shorter \cup
             {Append(bs, b) : bs \in {x \in shorter : Len(x) = n - 1},
                              b \in WalkBlockSet}

WalkInputs ==
    {BodyText(bs, tail) : bs \in WalkBlockLists(MaxBlocks), tail \in 0..2}

\* As InitParse, the text being one of WalkInputs.
InitWalk ==
    /\ pc = "parse"
    /\ stream = <<>>
    /\ streamState = "closed"
    /\ requests = 1
    /\ readerAcquired = TRUE
    /\ reads = 1
    /\ \E text \in WalkInputs :
          /\ response = [ok |-> TRUE, status |-> 200, statusText |-> "OK",
                         hasBody |-> TRUE, body |-> Encode(text)]
          /\ out = <<text>>
    /\ NotParsedYet
    /\ NoCommand /\ NoCalls /\ NoProgram

SpecWalk == InitWalk /\ [][NextParse]_vars

----------------------------------------------------------------------------
(* review and parseDiagnostic (review.ts).                                 *)

\* The text `${obj[key]}` of a template: the property if it is a string or a
\* number, "undefined" if the object has none.
Undefined == <<"u", "n", "d", "e", "f", "i", "n", "e", "d">>
TextOf(obj, key) ==
    LET found == {i \in 1..Len(obj.k) : obj.k[i].s = key}
    IN  IF found = {} THEN Undefined
        ELSE LET v == obj.k[CHOOSE i \in found : \A j \in found : j <= i].k[1]
             IN  IF v.t \in {"str", "num"} THEN v.s ELSE Undefined

\* The three literal parts of the regular expression of parseDiagnostic.
DiagOpen ==
    <<"<", "D", "I", "A", "G", "N", "O", "S", "T", "I", "C", " ", "f", "i",
      "l", "e", "p", "a", "t", "h", "=", "\"">>
DiagMid ==
    <<"\"", ">">>
DiagClose ==
    <<"<", "/", "D", "I", "A", "G", "N", "O", "S", "T", "I", "C", ">">>

\* text has the literal at position p.
HasAt(text, p, literal) ==
    /\ p + Len(literal) - 1 <= Len(text)
    /\ \A i \in 1..Len(literal) : text[p + i - 1] = literal[i]

NoMatch == [ok |-> FALSE, filepath |-> <<>>, text |-> <<>>, next |-> 0]

\* MatchAt with `*` for `+`: an empty filepath and an empty text match.
MatchAt_MayBeEmpty(text, p) ==
    IF ~HasAt(text, p, DiagOpen) THEN NoMatch
    ELSE LET q1 == p + Len(DiagOpen)
             e1 == IndexOf(text, "\"", q1)
         IN  IF e1 < q1 \/ ~HasAt(text, e1, DiagMid) THEN NoMatch
             ELSE LET q2 == e1 + Len(DiagMid)
                      e2 == IndexOf(text, "<", q2)
                  IN  IF e2 < q2 \/ ~HasAt(text, e2, DiagClose) THEN NoMatch
                      ELSE [ok |-> TRUE,
                            filepath |-> SubSeq(text, q1, e1 - 1),
                            text |-> SubSeq(text, q2, e2 - 1),
                            next |-> e2 + Len(DiagClose)]

\* One attempt of the regular expression at position p: `[^"]+` runs to the
\* first quote and `[^<]+` to the first `<`, both taking one character at
\* least.
MatchAt(text, p) ==
    IF ~HasAt(text, p, DiagOpen) THEN NoMatch
    ELSE LET q1 == p + Len(DiagOpen)
             e1 == IndexOf(text, "\"", q1)
         IN  IF e1 <= q1 \/ ~HasAt(text, e1, DiagMid) THEN NoMatch
             ELSE LET q2 == e1 + Len(DiagMid)
                      e2 == IndexOf(text, "<", q2)
                  IN  IF e2 <= q2 \/ ~HasAt(text, e2, DiagClose) THEN NoMatch
                      ELSE [ok |-> TRUE,
                            filepath |-> SubSeq(text, q1, e1 - 1),
                            text |-> SubSeq(text, q2, e2 - 1),
                            next |-> e2 + Len(DiagClose)]

\* llmResponse.matchAll(/.../g): the matches from left to right, each
\* search starting where the match before ended.
RECURSIVE MatchAll(_, _)
MatchAll(text, p) ==
    IF p > Len(text) THEN <<>>
    ELSE LET m == MatchAt(text, p)
         IN  IF m.ok THEN <<m>> \o MatchAll(text, m.next)
             ELSE MatchAll(text, p + 1)

\* process.env.SRC_ENDPOINT
Endpoint == <<"s", "g">>
RepositoryKey == <<"r", "e", "p", "o", "s", "i", "t", "o", "r", "y">>
CommitPath == <<"/", "-", "/", "c", "o", "m", "m", "i", "t", "/">>

\* parseDiagnostic(credentials, commit, llmResponse)
ParseDiagnostic(commit, llmResponse) ==
    LET ms == MatchAll(llmResponse, 1)
    IN  [i \in 1..Len(ms) |->
            [text |-> ms[i].text,
             url |-> Endpoint \o <<"/">> \o TextOf(commit, RepositoryKey)
                        \o CommitPath \o TextOf(commit, OidKey),
             filepath |-> ms[i].filepath]]

\* A diagnostic as the model answers it.
DiagnosticText(filepath, text) ==
    DiagOpen \o filepath \o DiagMid \o text \o DiagClose

\* The completions the model may answer a review with: no diagnostic, one,
\* and two with a line feed between them.
Replies ==
    { <<"o", "k">>,
      DiagnosticText(<<"f">>, <<"t">>),
      DiagnosticText(<<"f">>, <<"t">>) \o <<"\n">>
         \o DiagnosticText(<<"g">>, <<"u">>) }

----------------------------------------------------------------------------
(* The batch-review command (index.ts).                                    *)

NaN == [nan |-> TRUE, n |-> 0]
Number(n) == [nan |-> FALSE, n |-> n]

DigitValue(c) ==
    CASE c = "0" -> 0 [] c = "1" -> 1 [] c = "2" -> 2 [] c = "3" -> 3
      [] c = "4" -> 4 [] c = "5" -> 5 [] c = "6" -> 6 [] c = "7" -> 7
      [] c = "8" -> 8 [] c = "9" -> 9

\* The value of the longest run of digits at the start of s, read after acc.
RECURSIVE DigitsValue(_, _)
DigitsValue(s, acc) ==
    IF s = <<>> \/ Head(s) \notin Digits THEN acc
    ELSE DigitsValue(Tail(s), 10 * acc + DigitValue(Head(s)))

\* Number.parseInt(s, 10): leading white space, a sign, then digits; what
\* follows the digits is ignored, and no digit gives NaN.
ParseInt(s) ==
    LET t == TrimStart(s)
        signed == t # <<>> /\ Head(t) \in {"-", "+"}
        digits == IF signed THEN Tail(t) ELSE t
    IN  IF digits = <<>> \/ Head(digits) \notin Digits THEN NaN
        ELSE IF signed /\ Head(t) = "-" THEN Number(0 - DigitsValue(digits, 0))
        ELSE Number(DigitsValue(digits, 0))

\* array.slice(0, end): a negative end counts from the end of the array, and
\* NaN is 0.
SliceTo(array, end) ==
    LET len == Len(array)
        k == IF end.nan THEN 0
             ELSE IF end.n < 0 THEN (IF len + end.n < 0 THEN 0 ELSE len + end.n)
             ELSE IF end.n > len THEN len
             ELSE end.n
    IN  SubSeq(array, 1, k)

\* The option --max-commits as given on the command line, or not given.
NotGiven == [given |-> FALSE, text |-> <<>>]
Given(text) == [given |-> TRUE, text |-> text]
MaxCommitsArgs ==
    { NotGiven, Given(<<"-", "1">>), Given(<<"0">>), Given(<<"1">>),
      Given(<<"3">>), Given(<<"x">>) }

\* `.option("--max-commits <num>", ..., "2")`
OptionValue(arg) == IF arg.given THEN arg.text ELSE <<"2">>

\* The bodies the search of the command is answered with: no event, two
\* commits, three commits in two events, and a payload that is no JSON.
BatchInputs ==
    { BodyText(<<>>, 0),
      BodyText(<<<<EventLine(Matches),
                   DataOf(JArr(<<CommitObj(<<"a">>), CommitObj(<<"b">>)>>))>>>>,
               2),
      BodyText(<<<<EventLine(Matches),
                   DataOf(JArr(<<CommitObj(<<"a">>), CommitObj(<<"b">>)>>))>>,
                 <<EventLine(Matches), DataOf(JArr(<<CommitObj(<<"c">>)>>))>>>>,
               2),
      BodyText(<<<<EventLine(Matches), DataLine(<<"[", "1", ",">>)>>>>, 2) }

\* A line of output: the fixed part of the call and the text put into it.
Line(kind, text) == [kind |-> kind, text |-> text]
LabelKey == <<"l", "a", "b", "e", "l">>

\* What a review writes before its first await: its own line
\* (review.ts:22) and the url of the completions request.
ReviewStarted(commit) ==
    << Line("Reviewing commit", TextOf(commit, LabelKey)),
       Line("url", Endpoint) >>

\* The four lines the command prints for a diagnostic.
Printed(diagnostic) ==
    << Line("separator", <<>>),
       Line("URL", diagnostic.url),
       Line("FILEPATH", diagnostic.filepath),
       Line("text", diagnostic.text) >>

\* diagnostics.flat(): the diagnostics of the reviews, in the order of the
\* reviews.
RECURSIVE Flat(_)
Flat(arrays) ==
    IF arrays = <<>> THEN <<>> ELSE Head(arrays) \o Flat(Tail(arrays))

\* The command is started: its search is at the point of InitParse, on one
\* of BatchInputs.
InitBatch ==
    /\ pc = "parse"
    /\ stream = <<>>
    /\ streamState = "closed"
    /\ requests = 1
    /\ readerAcquired = TRUE
    /\ reads = 1
    /\ \E text \in BatchInputs :
          /\ response = [ok |-> TRUE, status |-> 200, statusText |-> "OK",
                         hasBody |-> TRUE, body |-> Encode(text)]
          /\ out = <<text>>
    /\ NotParsedYet
    /\ cmd = "search"
    /\ \E arg \in MaxCommitsArgs : maxCommits = OptionValue(arg)
    /\ reviews = <<>>
    /\ stdout = <<>>
    /\ stderr = <<>>
    /\ NoCalls /\ NoProgram

\* `await searchCommits(...)` rejects: so does the action of the command.
SearchFails ==
    /\ cmd = "search"
    /\ pc = "rejected"
    /\ cmd' = "failed"
    /\ UNCHANGED <<searchVars, maxCommits, reviews, stdout, stderr, calls, program>>

\* `commits.slice(0, Number.parseInt(maxCommits, 10)).map(...)`: a review is
\* started for each commit of the slice, in order, and runs to its first
\* await.
StartReviews ==
    /\ cmd = "search"
    /\ pc = "fulfilled"
    /\ LET selected == SliceTo(result.value, ParseInt(maxCommits))
       IN  /\ reviews' = [i \in 1..Len(selected) |->
                            [commit |-> selected[i], state |-> "pending",
                             completion |-> <<>>, value |-> <<>>]]
           /\ stdout' = stdout
                 \o Flat([i \in 1..Len(selected) |-> ReviewStarted(selected[i])])
    /\ cmd' = "reviewing"
    /\ UNCHANGED <<searchVars, maxCommits, stderr, calls, program>>

\* ReviewResolves with the diagnostics printed as soon as the review has
\* them.
ReviewResolves_PrintsAtOnce(i) ==
    /\ cmd = "reviewing"
    /\ reviews[i].state = "pending"
    /\ \E reply \in Replies :
          LET found == ParseDiagnostic(reviews[i].commit, reply)
          IN  /\ reviews' = [reviews EXCEPT ![i].state = "reviewed",
                                            ![i].completion = reply,
                                            ![i].value = found]
              /\ stdout' = stdout
                    \o Flat([k \in 1..Len(found) |-> Printed(found[k])])
    /\ UNCHANGED <<searchVars, cmd, maxCommits, stderr, calls, program>>

\* The completion of the i-th review arrives, one of `replies`: the review
\* resolves with the diagnostics parsed from it.
ReviewResolvesWith(i, replies) ==
    /\ cmd = "reviewing"
    /\ reviews[i].state = "pending"
    /\ \E reply \in replies :
          reviews' = [reviews EXCEPT
                         ![i].state = "reviewed",
                         ![i].completion = reply,
                         ![i].value = ParseDiagnostic(reviews[i].commit, reply)]
    /\ UNCHANGED <<searchVars, cmd, maxCommits, stdout, stderr, calls, program>>

ReviewResolves(i) == ReviewResolvesWith(i, Replies)

\* ReviewFails without the `.catch`: Promise.all rejects, and with it the
\* action of the command.
ReviewFails_Uncaught(i) ==
    /\ cmd = "reviewing"
    /\ reviews[i].state = "pending"
    /\ reviews' = [reviews EXCEPT ![i].state = "failed", ![i].value = <<>>]
    /\ cmd' = "failed"
    /\ UNCHANGED <<searchVars, maxCommits, stdout, stderr, calls, program>>

\* The i-th review rejects: its `.catch` logs the commit and gives no
\* diagnostics.
ReviewFails(i) ==
    /\ cmd = "reviewing"
    /\ reviews[i].state = "pending"
    /\ stderr' = Append(stderr, Line("Failed to review commit",
                                     TextOf(reviews[i].commit, OidKey)))
    /\ reviews' = [reviews EXCEPT ![i].state = "failed", ![i].value = <<>>]
    /\ UNCHANGED <<searchVars, cmd, maxCommits, stdout, calls, program>>

\* Promise.all resolves when every review has settled; the diagnostics are
\* printed and the action ends.
PrintDiagnostics ==
    /\ cmd = "reviewing"
    /\ \A i \in 1..Len(reviews) : reviews[i].state # "pending"
    /\ LET diagnostics == Flat([i \in 1..Len(reviews) |-> reviews[i].value])
       IN  stdout' = stdout
              \o Flat([i \in 1..Len(diagnostics) |-> Printed(diagnostics[i])])
    /\ cmd' = "done"
    /\ UNCHANGED <<searchVars, maxCommits, reviews, stderr, calls, program>>

NextBatch ==
    \/ ParseStart
    \/ ParseLineStep
    \/ ParseReturn
    \/ FilterEvent
    \/ Return
    \/ SearchFails
    \/ StartReviews
    \/ \E i \in 1..Len(reviews) : ReviewResolves(i)
    \/ \E i \in 1..Len(reviews) : ReviewFails(i)
    \/ PrintDiagnostics

SpecBatch == InitBatch /\ [][NextBatch]_vars

\* The pieces of a reply: plain text, a DIAGNOSTIC block with its filepath
\* and its text, and a block that is opened and not closed.
Plain(text) == [kind |-> "plain", filepath |-> <<>>, text |-> text]
Block(filepath, text) == [kind |-> "block", filepath |-> filepath, text |-> text]
Unclosed(filepath, text) ==
    [kind |-> "unclosed", filepath |-> filepath, text |-> text]

PieceText(piece) ==
    CASE piece.kind = "plain" -> piece.text
      [] piece.kind = "block" -> DiagnosticText(piece.filepath, piece.text)
      [] piece.kind = "unclosed" ->
            DiagOpen \o piece.filepath \o DiagMid \o piece.text

\* Good blocks (one with its text on a line of its own, as the prompt
\* shows it), blocks with an empty filepath, with an empty text and with a
\* `<` in the text, an unclosed block and plain text.
PieceSet ==
    { Plain(<<"o", "k">>),
      Block(<<"f">>, <<"t">>),
      Block(<<"g">>, <<"\n", "u", "\n">>),
      Block(<<>>, <<"t">>),
      Block(<<"f">>, <<>>),
      Block(<<"f">>, <<"a", "<", "b">>),
      Unclosed(<<"f">>, <<"a">>) }

MaxPieces == 2

\* Sequences of at most n pieces.
RECURSIVE PieceLists(_)
PieceLists(n) ==
    IF n = 0 THEN {<<>>}
    ELSE LET shorter == PieceLists(n - 1)
         IN  shorter \cup
             {Append(ps, x) : ps \in {y \in shorter : Len(y) = n - 1},
                              x \in PieceSet}

\* The reply made of the pieces, a line feed between two of them.
RECURSIVE ReplyText(_)
ReplyText(pieces) ==
    IF pieces = <<>> THEN <<>>
    ELSE IF Len(pieces) = 1 THEN PieceText(pieces[1])
    ELSE PieceText(pieces[1]) \o <<"\n">> \o ReplyText(Tail(pieces))

\* The completions the model may answer the review of SpecDiagnostic with.
DiagnosticReplies == {ReplyText(pieces) : pieces \in PieceLists(MaxPieces)}

\* The commits of the search of SpecDiagnostic: one with its repository,
\* one without.
RepoCommit(oid) ==
    JObj(<<JMem(TypeKey, JStr(Commit)), JMem(OidKey, JStr(oid)),
           JMem(RepositoryKey, JStr(<<"r">>))>>)
DiagnosticInputs ==
    { BodyText(<<<<EventLine(Matches), DataOf(JArr(<<c>>))>>>>, 2) :
        c \in {RepoCommit(<<"a">>), CommitObj(<<"b">>)} }

\* batch-review started without --max-commits, its search having found one
\* commit.
InitDiagnostic ==
    /\ pc = "parse"
    /\ stream = <<>>
    /\ streamState = "closed"
    /\ requests = 1
    /\ readerAcquired = TRUE
    /\ reads = 1
    /\ \E text \in DiagnosticInputs :
          /\ response = [ok |-> TRUE, status |-> 200, statusText |-> "OK",
                         hasBody |-> TRUE, body |-> Encode(text)]
          /\ out = <<text>>
    /\ NotParsedYet
    /\ cmd = "search"
    /\ maxCommits = OptionValue(NotGiven)
    /\ reviews = <<>>
    /\ stdout = <<>>
    /\ stderr = <<>>
    /\ NoCalls /\ NoProgram

\* The completion of the i-th review arrives, one of DiagnosticReplies.
ReviewAnswered(i) == ReviewResolvesWith(i, DiagnosticReplies)

NextDiagnostic ==
    \/ ParseStart
    \/ ParseLineStep
    \/ ParseReturn
    \/ FilterEvent
    \/ Return
    \/ StartReviews
    \/ \E i \in 1..Len(reviews) : ReviewAnswered(i)
    \/ PrintDiagnostics

SpecDiagnostic == InitDiagnostic /\ [][NextDiagnostic]_vars

----------------------------------------------------------------------------
(* Invocations of searchCommits that run at the same time.  An invocation  *)
(* runs without interruption from one await to the next: a step is what    *)
(* it does when the promise it awaits settles.                             *)

Rejection(error) == [state |-> "rejected", value |-> <<>>, error |-> error]

\* The filter loops of search.ts:75-89 on the events from the i-th on.
RECURSIVE FilterAll(_, _, _)
FilterAll(evs, i, acc) ==
    IF i > Len(evs)
    THEN [state |-> "fulfilled", value |-> acc, error |-> NoError]
    ELSE LET r == FilterOne(evs[i])
         IN  IF r.threw THEN Rejection(Error("TypeError", "filter"))
             ELSE FilterAll(evs, i + 1, acc \o r.pushed)

\* searchCommits from the end of the read loop to its return: the join, the
\* parse and the filter.
AfterRead(chunks) ==
    LET parsed == ParseSSE(Join(chunks))
    IN  IF parsed.threw THEN Rejection(Error("SyntaxError", "parse"))
        ELSE FilterAll(parsed.events, 1, <<>>)

\* The locals of an invocation: its position, the bytes its response
\* delivers, those not yet delivered, the chunks received, `out`, and the
\* settlement of its promise.
NewCall ==
    [pc |-> "fetch", body |-> <<>>, stream |-> <<>>, received |-> <<>>,
     out |-> <<>>, result |-> Pending]

\* Where the transport cuts the rest of a body: inside its first two-byte
\* character or, if it has none, after its first line feed; or not at all.
CutPoints(bytes) ==
    LET lf == IndexOf(bytes, "\n", 1)
        c3 == IndexOf(bytes, "C3", 1)
    IN  {Len(bytes)} \cup (IF c3 # 0 THEN {c3} ELSE IF lf # 0 THEN {lf} ELSE {})

InitConc ==
    /\ pc = "fetch"
    /\ response = NoResponse
    /\ stream = <<>>
    /\ streamState = "open"
    /\ requests = 0
    /\ readerAcquired = FALSE
    /\ reads = 0
    /\ out = <<>>
    /\ NotParsedYet
    /\ NoCommand
    /\ calls = [i \in 1..MaxCalls |-> NewCall]
    /\ NoProgram

\* The fetch of invocation i resolves; the two tests of the response and
\* getReader follow at once.
CallFetch(i) ==
    /\ calls[i].pc = "fetch"
    /\ \E r \in Responses, body \in Bodies :
          calls' = [calls EXCEPT ![i] =
             IF ~r.ok
             THEN [@ EXCEPT !.pc = "settled",
                            !.result = Rejection(StatusError(r))]
             ELSE IF ~r.hasBody
             THEN [@ EXCEPT !.pc = "settled",
                            !.result = Rejection(Error("Error", "nobody"))]
             ELSE [@ EXCEPT !.pc = "read", !.body = body, !.stream = body]]
    /\ UNCHANGED <<searchVars, commandVars, program>>

\* CallReadChunk with one `out` for all invocations.
CallReadChunk_SharedOut(i) ==
    /\ calls[i].pc = "read"
    /\ calls[i].stream # <<>>
    /\ Len(calls[i].received) < MaxChunks
    /\ \E n \in CutPoints(calls[i].stream) :
          /\ Len(calls[i].received) = MaxChunks - 1 => n = Len(calls[i].stream)
          /\ calls' = [j \in DOMAIN calls |->
                IF j = i
                THEN [calls[j] EXCEPT
                        !.received = Append(@, SubSeq(calls[i].stream, 1, n)),
                        !.out = Append(@, Decode(SubSeq(calls[i].stream, 1, n))),
                        !.stream = Slice(@, n)]
                ELSE [calls[j] EXCEPT
                        !.out = Append(@, Decode(SubSeq(calls[i].stream, 1, n)))]]
    /\ UNCHANGED <<searchVars, commandVars, program>>

\* A read of invocation i gives a chunk: it is decoded and pushed on the
\* `out` of the invocation.
CallReadChunk(i) ==
    /\ calls[i].pc = "read"
    /\ calls[i].stream # <<>>
    /\ Len(calls[i].received) < MaxChunks
    /\ \E n \in CutPoints(calls[i].stream) :
          /\ Len(calls[i].received) = MaxChunks - 1 => n = Len(calls[i].stream)
          /\ calls' = [calls EXCEPT
                ![i].received = Append(@, SubSeq(calls[i].stream, 1, n)),
                ![i].out = Append(@, Decode(SubSeq(calls[i].stream, 1, n))),
                ![i].stream = Slice(@, n)]
    /\ UNCHANGED <<searchVars, commandVars, program>>

\* A read of invocation i gives done: the invocation runs to its end.
CallReadDone(i) ==
    /\ calls[i].pc = "read"
    /\ calls[i].stream = <<>>
    /\ calls' = [calls EXCEPT ![i].pc = "settled",
                              ![i].result = AfterRead(calls[i].out)]
    /\ UNCHANGED <<searchVars, commandVars, program>>

\* A read of invocation i rejects.
CallReadThrows(i) ==
    /\ calls[i].pc = "read"
    /\ calls' = [calls EXCEPT ![i].pc = "settled",
                              ![i].result = Rejection(Error("Error", "read"))]
    /\ UNCHANGED <<searchVars, commandVars, program>>

NextConc ==
    \E i \in 1..MaxCalls :
        \/ CallFetch(i)
        \/ CallReadChunk(i)
        \/ CallReadDone(i)
        \/ CallReadThrows(i)

SpecConc == InitConc /\ [][NextConc]_vars

----------------------------------------------------------------------------
(* The example programs as processes: the prompt-eval provider script, the *)
(* cody command line (index.ts), the changelog example and the context     *)
(* example, each from its start to its first request or its exit.          *)

\* process.env.X and process.argv[n]: a text, or undefined.
Unset == [set |-> FALSE, text |-> <<>>]
SetTo(text) == [set |-> TRUE, text |-> text]

\* `!value`: undefined or the empty string.
Missing(value) == ~value.set \/ value.text = <<>>

\* `${value}` of a template.
Interpolated(value) == IF value.set THEN value.text ELSE Undefined

\* s.split(sep): the pieces between the occurrences of sep, left to right.
RECURSIVE SplitOn(_, _)
SplitOn(s, sep) ==
    LET found == {p \in 1..Len(s) : HasAt(s, p, sep)}
    IN  IF found = {} THEN <<s>>
        ELSE LET n == CHOOSE p \in found : \A q \in found : p <= q
             IN  <<SubSeq(s, 1, n - 1)>>
                    \o SplitOn(Slice(s, n + Len(sep) - 1), sep)

\* `const models = [...]`
Models ==
    <<
      <<"a", "n", "t", "h", "r", "o", "p", "i", "c", ":", ":", "2", "0",
        "2", "3", "-", "0", "6", "-", "0", "1", ":", ":", "c", "l", "a",
        "u", "d", "e", "-", "3", ".", "5", "-", "s", "o", "n", "n", "e",
        "t">>,
      <<"a", "n", "t", "h", "r", "o", "p", "i", "c", ":", ":", "2", "0",
        "2", "3", "-", "0", "6", "-", "0", "1", ":", ":", "c", "l", "a",
        "u", "d", "e", "-", "3", "-", "o", "p", "u", "s">>,
      <<"a", "n", "t", "h", "r", "o", "p", "i", "c", ":", ":", "2", "0",
        "2", "3", "-", "0", "6", "-", "0", "1", ":", ":", "c", "l", "a",
        "u", "d", "e", "-", "3", "-", "h", "a", "i", "k", "u">>,
      <<"f", "i", "r", "e", "w", "o", "r", "k", "s", ":", ":", "v", "1",
        ":", ":", "s", "t", "a", "r", "c", "o", "d", "e", "r">>,
      <<"f", "i", "r", "e", "w", "o", "r", "k", "s", ":", ":", "v", "1",
        ":", ":", "d", "e", "e", "p", "s", "e", "e", "k", "-", "c", "o",
        "d", "e", "r", "-", "v", "2", "-", "l", "i", "t", "e", "-", "b",
        "a", "s", "e">>,
      <<"g", "o", "o", "g", "l", "e", ":", ":", "v", "1", ":", ":", "g",
        "e", "m", "i", "n", "i", "-", "1", ".", "5", "-", "p", "r", "o">>,
      <<"g", "o", "o", "g", "l", "e", ":", ":", "v", "1", ":", ":", "g",
        "e", "m", "i", "n", "i", "-", "1", ".", "5", "-", "f", "l", "a",
        "s", "h">>,
      <<"o", "p", "e", "n", "a", "i", ":", ":", "2", "0", "2", "4", "-",
        "0", "2", "-", "0", "1", ":", ":", "g", "p", "t", "-", "4", "o">>,
      <<"o", "p", "e", "n", "a", "i", ":", ":", "2", "0", "2", "4", "-",
        "0", "2", "-", "0", "1", ":", ":", "c", "o", "d", "y", "-", "c",
        "h", "a", "t", "-", "p", "r", "e", "v", "i", "e", "w", "-", "0",
        "0", "1">>,
      <<"o", "p", "e", "n", "a", "i", ":", ":", "2", "0", "2", "4", "-",
        "0", "2", "-", "0", "1", ":", ":", "c", "o", "d", "y", "-", "c",
        "h", "a", "t", "-", "p", "r", "e", "v", "i", "e", "w", "-", "0",
        "0", "2">>
    >>

\* `const [, , name] = model.split('::')`: the third piece, if there is one.
NameOf(model) ==
    LET pieces == SplitOn(model, <<":", ":">>)
    IN  IF Len(pieces) >= 3 THEN SetTo(pieces[3]) ELSE Unset

\* byName.get(name) after the loop of byName.set(name, model): the last
\* model of the list with this name, or undefined.
ByNameGet(name) ==
    LET found == {i \in 1..Len(Models) : NameOf(Models[i]) = SetTo(name)}
    IN  IF found = {} THEN Unset
        ELSE SetTo(Models[CHOOSE i \in found : \A j \in found : j <= i])

\* obj[key] for a decoded JSON value: the value of the last member with
\* this key; [t |-> "undefined"] if obj is no object or has none.
JUndefined == [t |-> "undefined", s |-> <<>>, k |-> <<>>]
Get(obj, key) ==
    IF obj.t # "obj" THEN JUndefined
    ELSE LET found == {i \in 1..Len(obj.k) : obj.k[i].s = key}
         IN  IF found = {} THEN JUndefined
             ELSE obj.k[CHOOSE i \in found : \A j \in found : j <= i].k[1]

\* array[0]
First(array) ==
    IF array.t = "arr" /\ array.k # <<>> THEN array.k[1] ELSE JUndefined

\* A property read throws on null and on undefined.
Nullish(v) == v.t \in {"null", "undefined"}

ChoicesKey == <<"c", "h", "o", "i", "c", "e", "s">>
MessageKey == <<"m", "e", "s", "s", "a", "g", "e">>
ContentKey == <<"c", "o", "n", "t", "e", "n", "t">>

\* `json.choices[0].message.content`: [threw, value].
ReplyOf(json) ==
    IF Nullish(json) \/ Nullish(Get(json, ChoicesKey))
       \/ Nullish(First(Get(json, ChoicesKey)))
       \/ Nullish(Get(First(Get(json, ChoicesKey)), MessageKey))
    THEN [threw |-> TRUE, value |-> JUndefined]
    ELSE [threw |-> FALSE,
          value |-> Get(Get(First(Get(json, ChoicesKey)), MessageKey),
                        ContentKey)]

\* What console.log writes for a value.
Logged(v) ==
    IF v.t = "undefined" THEN Undefined
    ELSE IF v.t = "str" THEN v.s
    ELSE JSONStringify(v)

\* The body of a chat completion with this message.
Completion(message) ==
    JObj(<<JMem(ChoicesKey, JArr(<<JObj(<<JMem(MessageKey, message)>>)>>))>>)

\* What the server may answer the provider's request with: a completion,
\* one whose message has no content, one without choices, a body that is
\* no JSON, and a response that is not ok; or the request fails.
ProviderResponses ==
    { [failed |-> FALSE, ok |-> TRUE,
       body |-> JSONStringify(Completion(JObj(<<JMem(ContentKey,
                                                  JStr(<<"h", "i">>))>>)))],
      [failed |-> FALSE, ok |-> TRUE,
       body |-> JSONStringify(Completion(JObj(<<>>)))],
      [failed |-> FALSE, ok |-> TRUE,
       body |-> JSONStringify(JObj(<<JMem(ChoicesKey, JArr(<<>>))>>))],
      [failed |-> FALSE, ok |-> TRUE, body |-> <<"[", "1", ",">>],
      [failed |-> FALSE, ok |-> FALSE, body |-> <<"n", "o">>],
      [failed |-> TRUE, ok |-> FALSE, body |-> <<>>] }

\* The values of SRC_ENDPOINT and SRC_ACCESS_TOKEN, and of the arguments
\* of the provider script: the model (a name of the list, a full
\* identifier of the list, other texts) and the prompt.
EndpointValues == {Unset, SetTo(<<>>), SetTo(Endpoint)}
TokenValues == {Unset, SetTo(<<>>), SetTo(<<"t">>)}
ModelArgs ==
    { Unset, SetTo(<<>>),
      SetTo(<<"g", "p", "t", "-", "4", "o">>),
      SetTo(<<"s", "t", "a", "r", "c", "o", "d", "e", "r">>),
      SetTo(Models[8]),
      SetTo(<<"o", "p", "e", "n", "a", "i">>),
      SetTo(<<"g", "p", "t">>) }
PromptArgs == {Unset, SetTo(<<"h", "i">>)}

\* A url that fetch can send a request to: it starts with the endpoint.
IsUrl(url) == StartsWith(url, Endpoint)
ContextPath ==
    <<"/", ".", "a", "p", "i", "/", "c", "o", "d", "y", "/", "c", "o", "n",
      "t", "e", "x", "t">>

\* A process at its start.
Started(name, endpoint, token, openaiKey, model, prompt) ==
    [name |-> name, pc |-> "start", endpoint |-> endpoint, token |-> token,
     openaiKey |-> openaiKey, model |-> model, prompt |-> prompt,
     requests |-> 0, sent |-> Unset, response |-> "none",
     printed |-> <<>>, error |-> "", exited |-> FALSE, status |-> 0]

Runs ==
    {Started("provider", e, t, FALSE, m, p) :
        e \in EndpointValues, t \in TokenValues, m \in ModelArgs,
        p \in PromptArgs}
    \cup {Started(n, e, t, FALSE, Unset, Unset) :
        n \in {"cody", "changelog"}, e \in EndpointValues,
        t \in TokenValues}
    \cup {Started("context", e, t, k, Unset, Unset) :
        e \in EndpointValues, t \in TokenValues, k \in BOOLEAN}

\* searchCommits is not called.
Idle ==
    /\ pc = "idle"
    /\ response = NoResponse
    /\ stream = <<>>
    /\ streamState = "open"
    /\ requests = 0
    /\ readerAcquired = FALSE
    /\ reads = 0
    /\ out = <<>>
    /\ NotParsedYet

InitPrograms ==
    /\ Idle
    /\ NoCommand /\ NoCalls
    /\ program \in Runs

\* The process ends with status 1 and this error: an exception that
\* nothing catches, or `process.exit(1)`.
Exit1(error) ==
    program' = [program EXCEPT !.pc = "exited", !.error = error,
                               !.exited = TRUE, !.status = 1]

\* The process issues a request and waits for its response.
Request(sent) ==
    program' = [program EXCEPT !.pc = "requested",
                               !.requests = program.requests + 1,
                               !.sent = sent]

\* The provider script up to main(): its four tests.
ProviderStartup ==
    /\ program.name = "provider"
    /\ program.pc = "start"
    /\ IF Missing(program.endpoint)
       THEN Exit1("Missing environment variable SRC_ENDPOINT")
       ELSE IF Missing(program.token)
       THEN Exit1("Missing environment variable SRC_ACCESS_TOKEN")
       ELSE IF Missing(program.model) THEN Exit1("Missing model")
       ELSE IF Missing(program.prompt) THEN Exit1("Missing prompt")
       ELSE program' = [program EXCEPT !.pc = "main"]
    /\ UNCHANGED <<searchVars, commandVars, calls>>

\* ProviderMain without the test of the model: the argument is sent as it
\* is.
ProviderMain_NoLookup ==
    /\ program.name = "provider"
    /\ program.pc = "main"
    /\ Request(program.model)
    /\ UNCHANGED <<searchVars, commandVars, calls>>

\* main() up to its first await: the model is looked up and the request
\* is sent.
ProviderMain ==
    /\ program.name = "provider"
    /\ program.pc = "main"
    /\ LET model == ByNameGet(program.model.text)
       IN  IF Missing(model) THEN Exit1("Unknown model")
           ELSE Request(model)
    /\ UNCHANGED <<searchVars, commandVars, calls>>

\* The rest of main(): the response arrives (or fetch rejects), the reply
\* is printed, and the process exits.
ProviderResponse ==
    /\ program.name = "provider"
    /\ program.pc = "requested"
    /\ \E r \in ProviderResponses :
          IF r.failed
          THEN program' = [program EXCEPT !.pc = "exited", !.exited = TRUE,
                              !.status = 1, !.response = "failed",
                              !.error = "FetchError"]
          ELSE IF ~r.ok
          THEN program' = [program EXCEPT !.pc = "exited", !.exited = TRUE,
                              !.status = 1, !.response = "not ok",
                              !.error = "Failed to fetch"]
          ELSE LET json == JSONParse(r.body)
               IN  IF ~json.ok
                   THEN program' = [program EXCEPT !.pc = "exited",
                              !.exited = TRUE, !.status = 1,
                              !.response = "ok", !.error = "SyntaxError"]
                   ELSE IF ReplyOf(json.v).threw
                   THEN program' = [program EXCEPT !.pc = "exited",
                              !.exited = TRUE, !.status = 1,
                              !.response = "ok", !.error = "TypeError"]
                   ELSE program' = [program EXCEPT !.pc = "exited",
                              !.exited = TRUE, !.status = 0,
                              !.response = "ok",
                              !.printed = <<Logged(ReplyOf(json.v).value)>>]
    /\ UNCHANGED <<searchVars, commandVars, calls>>

\* index.ts up to `command.parse`: the two tests, token first.
CodyStartup ==
    /\ program.name = "cody"
    /\ program.pc = "start"
    /\ IF Missing(program.token) THEN Exit1("SRC_ACCESS_TOKEN is not set")
       ELSE IF Missing(program.endpoint) THEN Exit1("SRC_ENDPOINT is not set")
       ELSE program' = [program EXCEPT !.pc = "command"]
    /\ UNCHANGED <<searchVars, commandVars, calls>>

\* The action of a command: each starts with a request (getCompletions,
\* models.list, searchCommits, codyContext).
CodyCommand ==
    /\ program.name = "cody"
    /\ program.pc = "command"
    /\ Request(program.endpoint)
    /\ UNCHANGED <<searchVars, commandVars, calls>>

\* The changelog example: its test, and the call of fetchGraphQL at the
\* top of the module.
Changelog ==
    /\ program.name = "changelog"
    /\ program.pc = "start"
    /\ IF Missing(program.endpoint) \/ Missing(program.token)
       THEN Exit1("SRC_ENDPOINT and SRC_ACCESS_TOKEN must be set")
       ELSE Request(program.endpoint)
    /\ UNCHANGED <<searchVars, commandVars, calls>>

\* The context example up to its first await: no test of the two
\* variables; `new openai.OpenAI({ baseURL, apiKey: token })` takes
\* OPENAI_API_KEY for an undefined apiKey and throws if that is unset too.
ContextStartup ==
    /\ program.name = "context"
    /\ program.pc = "start"
    /\ IF ~program.token.set /\ ~program.openaiKey
       THEN Exit1("OpenAIError")
       ELSE program' = [program EXCEPT !.pc = "context"]
    /\ UNCHANGED <<searchVars, commandVars, calls>>

\* `await codyContext(query, [...])`: fetch rejects without a request if
\* `${endpoint}/.api/cody/context` is no url, and sends the request
\* otherwise, with `token ${token}` as it is.
ContextFetch ==
    /\ program.name = "context"
    /\ program.pc = "context"
    /\ IF IsUrl(Interpolated(program.endpoint) \o ContextPath)
       THEN Request(program.endpoint)
       ELSE Exit1("TypeError")
    /\ UNCHANGED <<searchVars, commandVars, calls>>

NextPrograms ==
    \/ ProviderStartup
    \/ ProviderMain
    \/ ProviderResponse
    \/ CodyStartup
    \/ CodyCommand
    \/ Changelog
    \/ ContextStartup
    \/ ContextFetch

SpecPrograms == InitPrograms /\ [][NextPrograms]_vars

----------------------------------------------------------------------------
(* Properties.                                                             *)

\* parseSSE has returned its events to searchCommits.
ParseReturned ==
    \/ pc \in {"filter", "fulfilled"}
    \/ pc = "rejected" /\ result.error.origin = "filter"

\* A `data:` line whose payload JSON.parse rejects.
BadDataLine(line) ==
    /\ StartsWith(line, DataPrefix)
    /\ ~JSONParse(Trim(Slice(line, Len(DataPrefix)))).ok

\* A `data:` line whose payload is valid JSON.
GoodDataLine(line) == StartsWith(line, DataPrefix) /\ ~BadDataLine(line)

\* The event an `event:` line and a `data:` line describe.
EventOf(eventLine, dataLine) ==
    [hasEvent |-> TRUE, event |-> Trim(Slice(eventLine, Len(EventPrefix))),
     hasData |-> TRUE,
     data |-> JSONParse(Trim(Slice(dataLine, Len(DataPrefix)))).v]

\* The events parseSSE returns for the lines ls, none of which throws.
EventsOf(ls) == ParseFlush(ParseLines(ParseBegin, ls, 1)).events

\* The lines are those of N blocks, each an `event:` line, a `data:` line
\* of valid JSON and a blank line: 3N lines, and the empty piece that
\* split leaves after the last line feed.
WellFormedBlocks(ls) ==
    /\ Len(ls) % 3 = 1
    /\ Len(ls) > 1
    /\ ls[Len(ls)] = <<>>
    /\ \A i \in 1..(Len(ls) \div 3) :
          /\ StartsWith(ls[3 * i - 2], EventPrefix)
          /\ GoodDataLine(ls[3 * i - 1])
          /\ ls[3 * i] = <<>>

\* C1 (as claimed): a buffer of N well-formed blocks parses to exactly N
\* events, the i-th carrying the trimmed name and the decoded data of the
\* i-th block.
C1_WellFormedBlocksYieldN ==
    (WellFormedBlocks(lines) /\ pc # "parseLoop") =>
        /\ ParseReturned
        /\ Len(events) = Len(lines) \div 3
        /\ \A i \in 1..(Len(lines) \div 3) :
              i <= Len(events) =>
                  events[i] = EventOf(lines[3 * i - 2], lines[3 * i - 1])

\* A block (a run of lines between blank lines) has both kinds of line.
HasBothLines(block) ==
    /\ \E i \in 1..Len(block) : StartsWith(block[i], EventPrefix)
    /\ \E i \in 1..Len(block) : StartsWith(block[i], DataPrefix)

\* The lines ls without the blocks that lack an `event:` or a `data:` line
\* (and without the blank lines that end them); block holds the lines of
\* the block being read.
RECURSIVE DropIncomplete(_, _)
DropIncomplete(ls, block) ==
    IF ls = <<>> THEN (IF HasBothLines(block) THEN block ELSE <<>>)
    ELSE IF Head(ls) = <<>>
    THEN (IF HasBothLines(block) THEN Append(block, <<>>) ELSE <<>>)
         \o DropIncomplete(Tail(ls), <<>>)
    ELSE DropIncomplete(Tail(ls), Append(block, Head(ls)))

\* C2 (as claimed): a block lacking an `event:` or a `data:` line is
\* discarded at its end, so the events returned are those of the buffer
\* without its incomplete blocks.
C2_IncompleteBlocksDiscarded ==
    ParseReturned => events = EventsOf(DropIncomplete(lines, <<>>))

\* An event as a producer holds it: both fields present.
SSE(name, data) ==
    [hasEvent |-> TRUE, event |-> name, hasData |-> TRUE, data |-> data]

\* One event written as an `event:` line, a `data:` line and a blank line.
WriteEvent(e) ==
    EventPrefix \o <<" ">> \o e.event \o <<"\n">>
    \o DataPrefix \o <<" ">> \o JSONStringify(e.data) \o <<"\n", "\n">>

RECURSIVE WriteEvents(_)
WriteEvents(evs) ==
    IF evs = <<>> THEN <<>> ELSE WriteEvent(Head(evs)) \o WriteEvents(Tail(evs))

\* The synthetic events of the round trip.
SynthEvents ==
    { SSE(Matches, JArr(<<CommitObj(<<"a">>)>>)),
      SSE(<<"x">>, JArr(<<CommitObj(<<"b">>)>>)),
      SSE(<<"x">>, JObj(<<JMem(TypeKey, JStr(Commit))>>)),
      SSE(Matches, JNum(<<"0">>)),
      SSE(Matches, JNum(<<"1">>)),
      SSE(Matches, JArr(<<JNull>>)) }

\* The lists of at most MaxBlocks synthetic events with distinct names and
\* distinct data, each with its text.
RECURSIVE SynthLists(_)
SynthLists(n) ==
    IF n = 0 THEN {<<>>}
    ELSE LET shorter == SynthLists(n - 1)
             Fresh(evs) == {e \in SynthEvents :
                               \A i \in 1..Len(evs) :
                                  /\ evs[i].event # e.event
                                  /\ evs[i].data # e.data}
         IN  shorter \cup
             UNION {{Append(evs, e) : e \in Fresh(evs)} :
                       evs \in {x \in shorter : Len(x) = n - 1}}

\* C3 (as claimed): the text written from K events with distinct names and
\* distinct data parses back to exactly those K events, in order.
C3_RoundTrip ==
    \A evs \in SynthLists(MaxBlocks) :
        (parseCalls = 1 /\ pc # "parseLoop" /\ responseBody = WriteEvents(evs))
            => (ParseReturned /\ events = evs)

\* The elements of a decoded array (other data has none).
ElementsOf(data) == IF data.t = "arr" THEN data.k ELSE <<>>

\* The elements of type "commit" of the events named "matches", by event
\* and then by place in the event's array.
RECURSIVE CommitsIn(_)
CommitsIn(evs) ==
    IF evs = <<>> THEN <<>>
    ELSE (IF Head(evs).event = Matches
          THEN SelectSeq(ElementsOf(Head(evs).data), IsCommit)
          ELSE <<>>)
         \o CommitsIn(Tail(evs))

\* The filter loop of searchCommits has ended, by return or by exception.
FilterEnded ==
    \/ pc = "fulfilled"
    \/ pc = "rejected" /\ result.error.origin = "filter"

\* C4 (as claimed): for any parsed event list the filter step returns
\* exactly the commit-typed elements of the events named "matches", in
\* order.
C4_FilterAnyEventList ==
    FilterEnded =>
        /\ result.state = "fulfilled"
        /\ result.value = CommitsIn(events)

\* The data of some event named "matches" cannot be walked: it is not
\* iterable, or one of its elements is null.
UnwalkableMatches(evs) ==
    \E i \in 1..Len(evs) :
        /\ evs[i].event = Matches
        /\ \/ evs[i].data.t \notin {"arr", "str"}
           \/ \E j \in 1..Len(ElementsOf(evs[i].data)) :
                 evs[i].data.k[j].t = "null"

\* C4 (amended): when the data of every event named "matches" is iterable
\* and holds no null element, the filter step returns exactly the
\* commit-typed elements of the events named "matches", by event and then
\* by place in the array, and events of another name contribute nothing;
\* otherwise searchCommits rejects with a TypeError and returns nothing.
C4_FilterWalkableEventList ==
    FilterEnded =>
        IF UnwalkableMatches(events)
        THEN /\ result.state = "rejected"
             /\ result.error.name = "TypeError"
             /\ result.value = <<>>
        ELSE /\ result.state = "fulfilled"
             /\ result.value = CommitsIn(events)

\* C4 witness: a result of one commit, from a list in which an event of
\* another name holds a commit and an event named "matches" holds an
\* element of another type.
C4_Witness ==
    /\ pc = "fulfilled"
    /\ Len(result.value) = 1
    /\ \E i \in 1..Len(events) :
          /\ events[i].event # Matches
          /\ SelectSeq(ElementsOf(events[i].data), IsCommit) # <<>>
    /\ \E i \in 1..Len(events) :
          /\ events[i].event = Matches
          /\ Len(ElementsOf(events[i].data)) = 2

\* C5: if a `data:` line of the buffer holds invalid JSON, the parse never
\* gets past the first such line and returns no events: searchCommits
\* rejects with the SyntaxError and no results, whatever came before.
C5_InvalidJsonFailsParse ==
    (\E i \in 1..Len(lines) : BadDataLine(lines[i])) =>
        /\ pc \in {"parseLoop", "rejected"}
        /\ pc = "parseLoop" =>
              /\ li <= Len(lines)
              /\ \A j \in 1..(li - 1) : ~BadDataLine(lines[j])
        /\ pc = "rejected" =>
              /\ BadDataLine(lines[li])
              /\ result.state = "rejected"
              /\ result.error.name = "SyntaxError"
              /\ result.value = <<>>
              /\ commitResults = <<>>

\* C5 witness: the parse has failed after a complete valid event.
C5_Witness ==
    /\ pc = "rejected"
    /\ result.error.name = "SyntaxError"
    /\ Len(events) = 1

\* The lines without the empty piece split leaves after a last line feed.
WithoutLastPiece(ls) ==
    IF ls[Len(ls)] = <<>> THEN SubSeq(ls, 1, Len(ls) - 1) ELSE ls

\* The index of the last blank line among the first n lines of ls, or 0.
RECURSIVE LastBlank(_, _)
LastBlank(ls, n) ==
    IF n = 0 THEN 0
    ELSE IF ls[n] = <<>> THEN n
    ELSE LastBlank(ls, n - 1)

\* The last line of block that starts with prefix.
LastLineWith(block, prefix) ==
    block[CHOOSE i \in 1..Len(block) :
             /\ StartsWith(block[i], prefix)
             /\ \A j \in (i + 1)..Len(block) : ~StartsWith(block[j], prefix)]

\* C6 (as claimed): a last block with an `event:` and a `data:` line and no
\* blank line after it is emitted as the last event, exactly once.
C6_TrailingBlockEmitted ==
    (parseCalls = 1 /\ pc # "parseLoop"
        /\ \A i \in 1..Len(lines) : ~BadDataLine(lines[i])) =>
        LET ls == WithoutLastPiece(lines)
            cut == LastBlank(ls, Len(ls))
            block == SubSeq(ls, cut + 1, Len(ls))
        IN  HasBothLines(block) =>
               /\ ParseReturned
               /\ Len(events) = Len(EventsOf(SubSeq(ls, 1, cut))) + 1
               /\ events[Len(events)] =
                     EventOf(LastLineWith(block, EventPrefix),
                             LastLineWith(block, DataPrefix))

\* C7: every record in the output has both fields, a record is appended
\* only when both are set on the in-progress record, and a field of the
\* in-progress record is set only by a line of its kind.
C7_EmitOnlyComplete ==
    /\ [](\A i \in 1..Len(events) : events[i].hasEvent /\ events[i].hasData)
    /\ [][/\ events' # events =>
                /\ events' = Append(events, currentEvent)
                /\ currentEvent.hasEvent /\ currentEvent.hasData
          /\ (currentEvent'.hasEvent /\ ~currentEvent.hasEvent) =>
                /\ pc = "parseLoop"
                /\ StartsWith(lines[li], EventPrefix)
          /\ (currentEvent'.hasData /\ ~currentEvent.hasData) =>
                /\ pc = "parseLoop"
                /\ GoodDataLine(lines[li])]_vars

\* C7 witness: in the middle of a parse, one event is out and the next
\* record has its name and not yet its data.
C7_Witness ==
    /\ pc = "parseLoop"
    /\ Len(events) = 1
    /\ currentEvent.hasEvent /\ ~currentEvent.hasData

\* C8: parseSSE of the empty buffer returns no events, and searchCommits
\* on an ok response whose body carries no text returns an empty list,
\* without error.
C8_EmptyBuffer ==
    (parseCalls = 1 /\ responseBody = <<>>) =>
        /\ events = <<>>
        /\ pc # "rejected"
        /\ result.state # "rejected"
        /\ pc = "fulfilled" =>
              /\ result.state = "fulfilled"
              /\ result.value = <<>>

\* C8 witness: an invocation that read one chunk without text has returned.
C8_Witness ==
    /\ pc = "fulfilled"
    /\ responseBody = <<>>
    /\ out = <<<<>>>>
    /\ lines = <<<<>>>>

\* C9: once fetch resolved with a status that is not ok, the invocation
\* goes from the status test to rejection only: no reader is obtained, no
\* read is made and parseSSE is not called.
C9_NotOkRejectsBeforeRead ==
    (response # NoResponse /\ ~response.ok) =>
        /\ pc \in {"checkOk", "rejected"}
        /\ ~readerAcquired
        /\ reads = 0
        /\ out = <<>>
        /\ parseCalls = 0
        /\ pc = "rejected" =>
              /\ result.state = "rejected"
              /\ result.error.origin = "status"

\* C9 witness: rejected for the status, with a body left unread.
C9_Witness ==
    /\ pc = "rejected"
    /\ result.error.origin = "status"
    /\ ~response.ok
    /\ stream # <<>>

\* C10: once a read has failed, the invocation is rejected with the read's
\* error, and nothing is parsed or returned from the chunks received.
C10_ReadFailureRejects ==
    streamState = "errored" =>
        /\ pc = "rejected"
        /\ result.state = "rejected"
        /\ result.error = Error("Error", "read")
        /\ result.value = <<>>
        /\ parseCalls = 0
        /\ events = <<>>
        /\ commitResults = <<>>

\* C10 witness: the read failed after a chunk with text was received.
C10_Witness ==
    /\ streamState = "errored"
    /\ Len(out) >= 1
    /\ out[1] # <<>>
    /\ stream # <<>>

----------------------------------------------------------------------------
(* Errors end the invocation, and the request is made once.                *)

Rejected == pc = "rejected" /\ result.state = "rejected"
RejectedAt(origin) == Rejected /\ result.error.origin = origin
ParseEntered == parseCalls > 0

\* C11: a non-ok status, a response without body, a read failure and a data
\* line of invalid JSON each end the invocation in rejection; an invocation
\* makes one HTTP request, never a second one, and a rejected invocation
\* takes no further step.
C11_ErrorEndsInRejection ==
    /\ requests <= 1
    /\ pc # "fetch" => requests = 1
    /\ (response # NoResponse /\ ~response.ok /\ pc # "checkOk")
           => RejectedAt("status")
    /\ (response # NoResponse /\ response.ok /\ ~response.hasBody
           /\ pc \notin {"checkOk", "checkBody"})
           => RejectedAt("nobody")
    /\ streamState = "errored" => RejectedAt("read")
    /\ (ParseEntered /\ pc # "parseLoop"
           /\ \E i \in 1..Len(lines) : BadDataLine(lines[i]))
           => RejectedAt("parse")
\* A step is taken by an invocation not yet rejected, and the only step
\* that makes a request is the first.
C11_RequestOnceStep ==
    /\ pc # "rejected"
    /\ requests' # requests => (pc = "fetch" /\ requests = 0)
\* C11: the above in every state, and no retry in any step.
C11_NoRetry ==
    /\ [](C11_ErrorEndsInRejection)
    /\ [][C11_RequestOnceStep]_vars

\* C11 witness: rejected for the missing body, after one request and before
\* any reader was taken.
C11_Witness ==
    /\ RejectedAt("nobody")
    /\ requests = 1
    /\ log = <<"nobody">>
    /\ ~readerAcquired

----------------------------------------------------------------------------
(* The read loop and the text it hands to parseSSE.                        *)

\* C12: the read loop reads until the stream is done and hands to parseSSE
\* the concatenation of the decoded chunks in arrival order, so that the text
\* parsed is the text of the response body wherever the chunk boundaries
\* fall.
C12_ChunkBoundariesIrrelevant ==
    ParseEntered =>
        /\ streamState = "closed"
        /\ stream = <<>>
        /\ responseBody = Join(out)
        /\ responseBody = Decode(response.body)

----------------------------------------------------------------------------
(* The filter keeps every commit-typed element, duplicates included.       *)

\* How many times x occurs in seq.
Occurrences(seq, x) == Cardinality({i \in 1..Len(seq) : seq[i] = x})

\* The commit-typed elements of the event, none if it is not named
\* "matches".
CommitElements(event) ==
    IF event.event = Matches
    THEN SelectSeq(ElementsOf(event.data), IsCommit)
    ELSE <<>>

\* A sum over the events.
RECURSIVE SumOver(_, _, _)
SumOver(evs, i, x) ==
    IF i > Len(evs) THEN 0
    ELSE (IF x = JNull THEN Len(CommitElements(evs[i]))
          ELSE Occurrences(CommitElements(evs[i]), x))
         + SumOver(evs, i + 1, x)
CommitCount(evs) == SumOver(evs, 1, JNull)
CommitOccurrences(evs, x) == SumOver(evs, 1, x)

\* C13: the filter removes no duplicate: the number of results is the total
\* number of commit-typed elements over all "matches" events, and a commit
\* occurs in the result as many times as it occurs in those events.
C13_NoDeduplication ==
    pc = "fulfilled" =>
        /\ Len(result.value) = CommitCount(events)
        /\ \A i \in 1..Len(events) :
              \A j \in 1..Len(CommitElements(events[i])) :
                 LET x == CommitElements(events[i])[j]
                 IN  Occurrences(result.value, x) = CommitOccurrences(events, x)

\* C13 witness: the same commit twice in one event and twice again in a
\* second event.
C13_Witness ==
    /\ pc = "fulfilled"
    /\ Len(events) = 2
    /\ Len(CommitElements(events[1])) = 2
    /\ CommitElements(events[1])[1] = CommitElements(events[1])[2]
    /\ events[2] = events[1]
    /\ Len(result.value) = 4
    /\ Occurrences(result.value, result.value[1]) = 4

----------------------------------------------------------------------------
(* Lines that are no field line and not empty.                             *)

\* A non-empty line that starts with neither `event:` nor `data:`.
IsOther(line) ==
    /\ line # <<>>
    /\ ~StartsWith(line, EventPrefix)
    /\ ~StartsWith(line, DataPrefix)
NotOther(line) == ~IsOther(line)

\* `id: 1`, a line of one carriage return, and a data line with a leading
\* space and a payload that is no JSON.
OtherLines ==
    { <<"i", "d", ":", " ", "1">>,
      <<"\r">>,
      <<" ">> \o DataPrefix \o <<"[">> }

\* What parseSSE does on these lines: that it threw, or the events.
OutcomeOf(ls) ==
    LET st == ParseLines(ParseBegin, ls, 1)
    IN  IF st.threw THEN [threw |-> TRUE, events |-> <<>>]
        ELSE [threw |-> FALSE, events |-> ParseFlush(st).events]

\* parseSSE has just ended, by return or by exception.
ParseJustEnded == (pc = "filter" /\ ei = 1) \/ RejectedAt("parse")

\* C16: non-empty lines that start with neither `event:` nor `data:` are
\* not interpreted: such a line, met at any place of the buffer, changes
\* neither the events nor the in-progress record nor whether the parse
\* fails, and ends no block; with all of them removed parseSSE returns the
\* same events or fails alike.
C16_OtherLinesIgnored ==
    /\ pc = "parseLoop" =>
          LET st == [events |-> events, currentEvent |-> currentEvent,
                     threw |-> FALSE]
          IN  /\ \A o \in OtherLines : ParseLine(st, o) = st
              /\ (li <= Len(lines) /\ IsOther(lines[li]))
                    => ParseLine(st, lines[li]) = st
    /\ ParseJustEnded =>
          OutcomeOf(SelectSeq(lines, NotOther))
             = IF pc = "filter" THEN [threw |-> FALSE, events |-> events]
               ELSE [threw |-> TRUE, events |-> <<>>]

\* C16 witness: two events were returned from a buffer with two `id:` lines.
C16_Witness ==
    /\ pc = "filter" /\ ei = 1
    /\ Len(events) = 2
    /\ IsOther(lines[1])
    /\ \E i \in 2..Len(lines) : IsOther(lines[i])

----------------------------------------------------------------------------
(* The error of a non-ok status.                                           *)

\* C17: the error raised on a non-ok status carries the status, the status
\* text and the body of the response.
C17_StatusErrorCarriesBody ==
    RejectedAt("status") =>
        /\ result.error.status = response.status
        /\ result.error.statusText = response.statusText
        /\ result.error.body = Decode(response.body)

----------------------------------------------------------------------------
(* Reading first, parsing after.                                           *)

\* C18: parseSSE is called at most once in an invocation, and only after
\* the reader gave done; no step of the parse is taken while chunks are
\* read, and no chunk is read once the parse has begun.
C18_ParseAfterDone ==
    /\ parseCalls <= 1
    /\ ParseEntered => (streamState = "closed" /\ stream = <<>>)
    /\ pc \in {"parseLoop", "filter", "fulfilled"} => parseCalls = 1
    /\ pc = "read" => (~ParseEntered /\ lines = <<>> /\ events = <<>>)
\* No read once the parse was entered, one entry of the parse, and no step
\* of the parse on an open stream.
C18_ReadOrParseStep ==
    /\ (reads' # reads \/ out' # out) => (parseCalls = 0 /\ parseCalls' = 0)
    /\ parseCalls' # parseCalls => (pc = "parse" /\ parseCalls = 0)
    /\ (lines' # lines \/ li' # li \/ events' # events
           \/ currentEvent' # currentEvent)
          => (streamState = "closed" /\ out' = out /\ reads' = reads)
\* C18: the above in every state, and in every step reading comes before
\* parsing.
C18_ReadThenParse ==
    /\ [](C18_ParseAfterDone)
    /\ [][C18_ReadOrParseStep]_vars

\* C18 witness: the parse is under way on a body that came in two chunks.
C18_Witness ==
    /\ pc = "parseLoop"
    /\ li > 1
    /\ reads = 2
    /\ Len(out) = 2 /\ out[1] # <<>> /\ out[2] # <<>>
    /\ parseCalls = 1

----------------------------------------------------------------------------
(* Lines that end with CR LF.                                              *)

\* The last of the first n lines that starts with prefix, 0 if there is
\* none.
LastFieldLine(ls, n, prefix) ==
    LET found == {i \in 1..n : StartsWith(ls[i], prefix)}
    IN  IF found = {} THEN 0
        ELSE CHOOSE i \in found : \A j \in found : j <= i

\* The loop of parseSSE is at a line that a CR LF ended in the buffer.
AtCRLFLine == pc = "parseLoop" /\ li <= Len(lines)

\* C20 (as claimed): CR LF is not normalized, and in a buffer whose lines
\* end with CR LF the `event:` and `data:` lines fail the prefix match, so
\* that their fields are not set on the in-progress record.
C20_CRLFFieldsNotSet ==
    AtCRLFLine => currentEvent = EmptyEvent

\* C20 (amended): CR LF is not normalized; the `event:` and `data:` lines
\* pass the prefix match and set their fields, the carriage return being
\* trimmed from the value, but the line between two blocks holds the
\* carriage return, is not empty and ends no block: no event is emitted
\* before the end of the buffer, and at most one is returned.
C20_CRLFEndsNoBlock ==
    /\ AtCRLFLine =>
          LET e == LastFieldLine(lines, li - 1, EventPrefix)
              d == LastFieldLine(lines, li - 1, DataPrefix)
          IN  /\ events = <<>>
              /\ currentEvent.hasEvent = (e # 0)
              /\ currentEvent.hasData = (d # 0)
              /\ e # 0 => /\ currentEvent.event = Trim(Slice(lines[e], 6))
                          /\ \A i \in 1..Len(currentEvent.event) :
                                currentEvent.event[i] # "\r"
              /\ d # 0 => currentEvent.data =
                              JSONParse(Trim(Slice(lines[d], 5))).v
    /\ ParseReturned => Len(events) <= 1

\* C20 witness: the loop is at the second line of one carriage return, and
\* the record set by the first block is still in progress.
C20_Witness ==
    /\ AtCRLFLine
    /\ li > 4
    /\ lines[3] = <<"\r">>
    /\ IsComplete(currentEvent)
    /\ currentEvent.event = Matches
    /\ lines[li] = <<"\r">>

----------------------------------------------------------------------------
(* The reviews of the batch-review command.                                *)

\* The i-th review has failed, or has given its diagnostics.
ReviewFailed(i) == reviews[i].state = "failed"
Reviewed(i) == reviews[i].state = "reviewed"

\* The number of lines of this kind in the output.
LinesOf(output, kind) ==
    Cardinality({k \in 1..Len(output) : output[k].kind = kind})

\* The four lines of the diagnostic are in the output, one after the other.
IsPrinted(diagnostic) ==
    \E k \in 1..Len(stdout) :
        /\ k + 3 <= Len(stdout)
        /\ SubSeq(stdout, k, k + 3) = Printed(diagnostic)

\* C14: a review that fails is logged and contributes no diagnostics; the
\* other reviews run to completion and all their diagnostics are printed;
\* a failed review never makes the command fail.
C14_FailedReviewIsolated ==
    /\ cmd = "failed" => (pc = "rejected" /\ reviews = <<>>)
    /\ \A i \in 1..Len(reviews) :
          ReviewFailed(i) =>
             /\ reviews[i].value = <<>>
             /\ \E k \in 1..Len(stderr) :
                   stderr[k] = Line("Failed to review commit",
                                    TextOf(reviews[i].commit, OidKey))
    /\ Len(stderr) = Cardinality({i \in 1..Len(reviews) : ReviewFailed(i)})
    /\ cmd = "done" =>
          /\ \A i \in 1..Len(reviews) :
                /\ ReviewFailed(i) \/ Reviewed(i)
                /\ Reviewed(i) =>
                      \A j \in 1..Len(reviews[i].value) :
                         IsPrinted(reviews[i].value[j])
          /\ LinesOf(stdout, "separator")
                = Len(Flat([i \in 1..Len(reviews) |-> reviews[i].value]))
\* A step that changes one review changes no other.
C14_ReviewStep ==
    \A i \in 1..Len(reviews) :
        (Len(reviews') = Len(reviews) /\ reviews'[i] # reviews[i])
           => \A j \in 1..Len(reviews) : j # i => reviews'[j] = reviews[j]
\* C14: the above in every state, and the reviews settle one by one, none
\* touching another.
C14_ReviewsIndependent ==
    /\ [](C14_FailedReviewIsolated)
    /\ [][C14_ReviewStep]_vars

\* C14 witness: the first and the third review failed, and the two
\* diagnostics of the second were printed.
C14_Witness ==
    /\ cmd = "done"
    /\ Len(reviews) = 3
    /\ ReviewFailed(1) /\ ReviewFailed(3)
    /\ Reviewed(2) /\ Len(reviews[2].value) = 2
    /\ LinesOf(stdout, "FILEPATH") = 2
    /\ Len(stderr) = 2

\* The reviews were started.
ReviewsStarted == cmd \in {"reviewing", "done"}

\* C15: a review is started for at most --max-commits commits, whatever
\* integer the option gives (2 when it is absent; none can be started for
\* an integer below 1), and the commits reviewed are the first ones of the
\* search result, in order.
C15_AtMostMaxCommits ==
    (ReviewsStarted /\ ~ParseInt(maxCommits).nan) =>
        /\ Len(reviews) <= (IF ParseInt(maxCommits).n < 0 THEN 0
                            ELSE ParseInt(maxCommits).n)
        /\ Len(reviews) <= Len(result.value)
        /\ \A i \in 1..Len(reviews) : reviews[i].commit = result.value[i]

----------------------------------------------------------------------------
(* Invocations share nothing.                                              *)

DecodeEach(chunks) == [k \in 1..Len(chunks) |-> Decode(chunks[k])]

\* The invocation ended after its read loop, by return or by an exception
\* of the parse or of the filter.
EndedAfterRead(call) ==
    /\ call.pc = "settled"
    /\ call.result.error.origin \notin {"status", "nobody", "read"}

\* C19: invocations that run at the same time share no data: under every
\* interleaving of their reads the `out` of each holds the chunks of its own
\* response and nothing else, in order, and each settles as it would alone
\* on these chunks.
C19_OwnChunksOnly ==
    \A i \in DOMAIN calls :
        /\ calls[i].out = DecodeEach(calls[i].received)
        /\ Join(calls[i].received) \o calls[i].stream = calls[i].body
        /\ EndedAfterRead(calls[i]) =>
              /\ calls[i].stream = <<>>
              /\ calls[i].result = AfterRead(DecodeEach(calls[i].received))
\* A step changes the locals of one invocation.
C19_OneCallStep ==
    \A i, j \in DOMAIN calls :
        i # j => (calls'[i] = calls[i] \/ calls'[j] = calls[j])
\* C19: the above in every state, and no step of an invocation changes the
\* locals of another.
C19_CallsIsolated ==
    /\ [](C19_OwnChunksOnly)
    /\ [][C19_OneCallStep]_vars

\* C19 witness: the first invocation has returned commits read in two
\* chunks while the second, on another body, is between its two chunks.
C19_Witness ==
    /\ calls[1].pc = "settled"
    /\ calls[1].result.state = "fulfilled"
    /\ calls[1].result.value # <<>>
    /\ Len(calls[1].received) = 2
    /\ calls[2].pc = "read"
    /\ Len(calls[2].received) = 1
    /\ calls[2].stream # <<>>
    /\ calls[2].body # calls[1].body

----------------------------------------------------------------------------
(* Settlement.                                                             *)

Settled == result.state \in {"fulfilled", "rejected"}
StreamEnded == streamState \in {"closed", "errored"}

\* The steps still to take, as a pair ordered by its first and then by its
\* second number: the place in searchCommits, and what is left of the loop
\* the invocation is in (the transport gives MaxChunks chunks at most
\* before it ends the stream).
Phase ==
    CASE pc = "fetch" -> 8
      [] pc = "checkOk" -> 7
      [] pc = "checkBody" -> 6
      [] pc = "getReader" -> 5
      [] pc = "read" -> 4
      [] pc = "parse" -> 3
      [] pc = "parseLoop" -> 2
      [] pc = "filter" -> 1
      [] pc \in {"fulfilled", "rejected"} -> 0
LeftOfLoop ==
    CASE pc = "read" -> MaxChunks - reads
      [] pc = "parseLoop" -> Len(lines) + 1 - li
      [] pc = "filter" -> Len(events) + 1 - ei
      [] OTHER -> 0

\* A step is possible: the invocation waits for the transport, which
\* answers, or has a synchronous step to take.
StepPossible ==
    \/ pc \in {"fetch", "read"}
    \/ pc \in {"checkOk", "checkBody", "getReader", "parse"}
    \/ pc = "parseLoop" /\ (li <= Len(lines) \/ li > Len(lines))
    \/ pc = "filter" /\ (ei <= Len(events) \/ ei > Len(events))

\* Every step brings the invocation nearer to its end.
C21_StepDecreases ==
    /\ Phase' <= Phase
    /\ Phase' = Phase => LeftOfLoop' < LeftOfLoop
    /\ LeftOfLoop' >= 0
C21_NotStuck ==
    /\ LeftOfLoop >= 0
    /\ Settled <=> Phase = 0
    /\ ~Settled => StepPossible
    /\ (StreamEnded /\ ~Settled) => pc \in {"parse", "parseLoop", "filter"}

----------------------------------------------------------------------------
(* The emission test and the in-progress record of parseSSE.               *)

\* The loop of parseSSE is at a blank line with both fields of the record
\* set.
AtBlankLineWithBoth ==
    /\ pc = "parseLoop"
    /\ li <= Len(lines)
    /\ lines[li] = <<>>
    /\ currentEvent.hasEvent
    /\ currentEvent.hasData

\* The decoded data is one of null, false, 0 and the empty string.
FalsyData(v) == v \in {JNull, JFalse, JNum(<<"0">>), JStr(<<>>)}

C22_BlankLineStep ==
    AtBlankLineWithBoth =>
        IF currentEvent.event # <<>> /\ ~FalsyData(currentEvent.data)
        THEN events' = Append(events, currentEvent)
        ELSE events' = events /\ currentEvent' = currentEvent

\* C22: at the blank line of a block with an `event:` and a `data:` line,
\* parseSSE emits the record if and only if its event name is non-empty and
\* its data is none of null, false, 0 and ""; if it does not emit, the
\* record stays as it is, its fields visible to the following block.
C22_EmittedIffTruthy == [][C22_BlankLineStep]_vars

\* C22 witness: the block `event: matches`, `data: 0` was not emitted, and
\* its name went into the event emitted for the following block, which has
\* a data line only.
C22_Witness ==
    /\ pc = "filter"
    /\ lines = <<EventLine(Matches), DataOf(JNum(<<"0">>)), <<>>,
                 DataOf(JArr(<<CommitObj(<<"c">>)>>)), <<>>>>
    /\ events = <<[hasEvent |-> TRUE, event |-> Matches, hasData |-> TRUE,
                   data |-> JArr(<<CommitObj(<<"c">>)>>)]>>

\* The number of lines among the first n that start with the prefix.
CountPrefixed(ls, n, prefix) ==
    Cardinality({i \in 1..n : StartsWith(ls[i], prefix)})

\* The lines parseSSE has gone through.
LinesDone == IF pc = "parseLoop" THEN li - 1 ELSE Len(lines)

C23_Counted ==
    /\ Len(events) <= CountPrefixed(lines, LinesDone, DataPrefix)
    /\ Len(events) <= CountPrefixed(lines, LinesDone, EventPrefix)

\* The end of parseSSE after a blank line that emitted, with no field line
\* in between, returns the events as they are.
C23_FlushStep ==
    (/\ pc = "parseLoop" /\ pc' = "filter"
     /\ Len(lines) >= 1
     /\ \E k \in 1..Len(lines) :
           /\ \A j \in k..Len(lines) : lines[j] = <<>>
           /\ k > 1
           /\ ParseLines(ParseBegin, lines, 1).events
                 # ParseLines(ParseBegin, SubSeq(lines, 1, k - 1), 1).events)
        => events' = events

\* C23: parseSSE returns at most as many events as the buffer has `data:`
\* lines and at most as many as it has `event:` lines, at every point of
\* its loop and at its end; the flush after the loop adds nothing when the
\* last record was emitted at a blank line, whether the buffer ends with
\* no, one or two line feeds.
C23_AtMostOnePerBlock ==
    /\ [](C23_Counted)
    /\ [][C23_FlushStep]_vars

\* C23 witness: two blocks, the buffer ending with two line feeds, so that
\* the second event was emitted at a blank line and the flush had nothing
\* left: two events for two `data:` lines.
C23_Witness ==
    /\ pc = "filter"
    /\ Len(lines) >= 2
    /\ lines[Len(lines)] = <<>> /\ lines[Len(lines) - 1] = <<>>
    /\ Len(events) = 2
    /\ CountPrefixed(lines, Len(lines), DataPrefix) = 2

\* The value of the last `event:` line and of the last `data:` line among
\* the lines before the li-th.
LastEventName ==
    Trim(Slice(lines[LastFieldLine(lines, li - 1, EventPrefix)],
               Len(EventPrefix)))
LastDataPayload ==
    JSONParse(Trim(Slice(lines[LastFieldLine(lines, li - 1, DataPrefix)],
                         Len(DataPrefix)))).v

\* A step of the loop that emits.
C24_EmitStep ==
    (pc = "parseLoop" /\ pc' = "parseLoop" /\ events' # events) =>
        /\ Len(events') = Len(events) + 1
        /\ events'[Len(events')].event = LastEventName
        /\ events'[Len(events')].data = LastDataPayload
        /\ SubSeq(events', 1, Len(events)) = events

\* C24: the event emitted at a blank line carries the name of the last
\* `event:` line and the payload of the last `data:` line before it, also
\* when the block holds several of them; the earlier values are gone, and
\* the block yields this one event.
C24_LastValueWins == [][C24_EmitStep]_vars

\* C24 witness: the block `event: x`, `event: matches`, `data: [commit b]`,
\* `data: [commit a]` has been emitted as the one event matches with
\* [commit a].
C24_Witness ==
    /\ pc = "parseLoop"
    /\ li = 6
    /\ SubSeq(lines, 1, 5) =
          <<EventLine(<<"x">>), EventLine(Matches),
            DataOf(JArr(<<CommitObj(<<"b">>)>>)),
            DataOf(JArr(<<CommitObj(<<"a">>)>>)), <<>>>>
    /\ events = <<[hasEvent |-> TRUE, event |-> Matches, hasData |-> TRUE,
                   data |-> JArr(<<CommitObj(<<"a">>)>>)]>>
----------------------------------------------------------------------------
(* The output of batch-review.                                             *)

\* A line of the print loop of the command.
IsDiagnosticLine(l) == l.kind \in {"separator", "URL", "FILEPATH", "text"}
DiagnosticLines == SelectSeq(stdout, IsDiagnosticLine)

\* The url of the diagnostics of a commit.
UrlOf(commit) ==
    Endpoint \o <<"/">> \o TextOf(commit, RepositoryKey) \o CommitPath
        \o TextOf(commit, OidKey)

\* The lines of the diagnostics of the reviews from the i-th on, review by
\* review.
RECURSIVE GroupedFrom(_)
GroupedFrom(i) ==
    IF i > Len(reviews) THEN <<>>
    ELSE Flat([k \in 1..Len(reviews[i].value) |->
                  Printed(reviews[i].value[k])]) \o GroupedFrom(i + 1)

C25_GroupedAfterAll ==
    /\ DiagnosticLines # <<>> =>
          /\ cmd = "done"
          /\ \A i \in 1..Len(reviews) : reviews[i].state # "pending"
    /\ cmd = "done" =>
          /\ DiagnosticLines = GroupedFrom(1)
          /\ \A i \in 1..Len(reviews) :
                /\ reviews[i].commit = result.value[i]
                /\ \A k \in 1..Len(reviews[i].value) :
                      reviews[i].value[k].url = UrlOf(reviews[i].commit)

\* A review that settles prints no diagnostic, whichever reviews are still
\* pending.
C25_SettleStep ==
    (cmd = "reviewing" /\ cmd' = "reviewing") => stdout' = stdout

\* C25: the diagnostics are printed review by review in the order of the
\* search result, each under the url of its commit, whatever order the
\* reviews settled in, and no line of a diagnostic is printed while a
\* selected review is pending.
C25_PrintedInSearchOrder ==
    /\ [](C25_GroupedAfterAll)
    /\ [][C25_SettleStep]_vars

\* C25 witness: the second review has its diagnostics while the first is
\* pending, and nothing of them is printed.
C25_WitnessOutOfOrder ==
    /\ cmd = "reviewing"
    /\ Len(reviews) >= 2
    /\ reviews[1].state = "pending"
    /\ Reviewed(2) /\ reviews[2].value # <<>>
    /\ DiagnosticLines = <<>>

\* C25 witness: two reviews gave diagnostics, and those of the first commit
\* of the search result are printed before those of the second.
C25_Witness ==
    /\ cmd = "done"
    /\ Len(reviews) >= 2
    /\ Len(reviews[1].value) = 2 /\ Len(reviews[2].value) = 1
    /\ Len(DiagnosticLines) = 12
    /\ DiagnosticLines[2].text = UrlOf(result.value[1])
    /\ DiagnosticLines[10].text = UrlOf(result.value[2])
    /\ result.value[1] # result.value[2]
----------------------------------------------------------------------------
(* Data the filter loop cannot walk.                                       *)

\* The data is not iterable, or is an array that holds a null.
NotWalkable(data) ==
    \/ data.t \notin {"arr", "str"}
    \/ data.t = "arr" /\ \E i \in 1..Len(data.k) : data.k[i] = JNull

\* The filter loop is at an event with such data.
AtNotWalkable ==
    /\ pc = "filter"
    /\ ei <= Len(events)
    /\ NotWalkable(events[ei].data)

C26_FilterStep ==
    AtNotWalkable =>
        IF events[ei].event = Matches
        THEN /\ result'.state = "rejected"
             /\ result'.error # NoError
             /\ result'.value = <<>>
             /\ pc' = "rejected"
        ELSE /\ result' = result
             /\ commitResults' = commitResults
             /\ ei' = ei + 1
             /\ pc' = "filter"

\* A rejected invocation has no result list.
C26_NoPartialList ==
    result.state = "rejected" => result.value = <<>>

\* C26: at a "matches" event whose data is not iterable or holds a null
\* element searchCommits rejects with an error and gives no result list,
\* also when it has collected commits from earlier events; at an event of
\* another name the same data is passed over without error.
C26_UnwalkableMatchesRejects ==
    /\ [](C26_NoPartialList)
    /\ [][C26_FilterStep]_vars

\* C26 witness: commit a was collected from the first event, the data of
\* the second "matches" event is the number 1, and the invocation is
\* rejected without a list.
C26_Witness ==
    /\ pc = "rejected"
    /\ Len(events) = 2 /\ ei = 2
    /\ events[2].event = Matches /\ events[2].data = JNum(<<"1">>)
    /\ commitResults = <<CommitObj(<<"a">>)>>
    /\ result.state = "rejected" /\ result.value = <<>>

\* C26 witness: the same data under the name x was passed over, and the
\* invocation resolved.
C26_WitnessOtherName ==
    /\ pc = "fulfilled"
    /\ Len(events) = 2
    /\ events[1].event = <<"x">> /\ events[1].data = JNum(<<"1">>)
    /\ events[2].event = <<"x">>
    /\ events[2].data = JArr(<<CommitObj(<<"b">>), JNull>>)
    /\ result.state = "fulfilled"
----------------------------------------------------------------------------
(* parseDiagnostic on replies made of pieces.                              *)

\* A block with a filepath and a text, no `<` in the text.
WellFormed(piece) ==
    /\ piece.kind = "block"
    /\ piece.filepath # <<>>
    /\ piece.text # <<>>
    /\ \A k \in 1..Len(piece.text) : piece.text[k] # "<"

\* One Diagnostic for each well-formed piece, in order.
DiagnosticsOf(commit, pieces) ==
    LET good == SelectSeq(pieces, WellFormed)
    IN  [k \in 1..Len(good) |->
            [text |-> good[k].text,
             url |-> UrlOf(commit),
             filepath |-> good[k].filepath]]

\* C27: parseDiagnostic returns one Diagnostic for each well-formed block
\* of the reply, in order, with the filepath and the text of the block and
\* the url <endpoint>/<repository>/-/commit/<oid> of the commit; nothing
\* for a reply without such a block, and nothing for a block with an empty
\* filepath, with an empty text or with a `<` in its text.
C27_OnePerWellFormedBlock ==
    \A i \in 1..Len(reviews) :
        Reviewed(i) =>
            \A pieces \in PieceLists(MaxPieces) :
                ReplyText(pieces) = reviews[i].completion =>
                    reviews[i].value = DiagnosticsOf(reviews[i].commit, pieces)

\* C27 witness: the reply was a block with an empty filepath and then a
\* good block; the review has the one Diagnostic of the good block.
C27_Witness ==
    /\ Len(reviews) = 1
    /\ Reviewed(1)
    /\ reviews[1].completion =
          ReplyText(<<Block(<<>>, <<"t">>), Block(<<"g">>, <<"\n", "u", "\n">>)>>)
    /\ reviews[1].value =
          <<[text |-> <<"\n", "u", "\n">>,
             url |-> <<"s", "g", "/", "r", "/", "-", "/", "c", "o", "m", "m",
                       "i", "t", "/", "a">>,
             filepath |-> <<"g">>]>>
----------------------------------------------------------------------------
(* The example programs and their credentials.                             *)

\* A program runs without one of the two variables.
WithoutCredentials ==
    /\ program.name # "none"
    /\ ~program.endpoint.set \/ ~program.token.set

\* C28: a program that runs with SRC_ENDPOINT or SRC_ACCESS_TOKEN unset
\* sends no request and never waits for a response; when it ends, it has
\* failed with an error.
C28_NoRequestWithoutCredentials ==
    WithoutCredentials =>
        /\ program.requests = 0
        /\ program.pc # "requested"
        /\ program.exited =>
              program.status = 1 /\ program.error # ""

----------------------------------------------------------------------------
(* The exit status of the prompt-eval provider script.                     *)

\* The third `::` segment of each model of the list.
ShortNames ==
    {
      <<"c", "l", "a", "u", "d", "e", "-", "3", ".", "5", "-", "s", "o",
        "n", "n", "e", "t">>,
      <<"c", "l", "a", "u", "d", "e", "-", "3", "-", "o", "p", "u", "s">>,
      <<"c", "l", "a", "u", "d", "e", "-", "3", "-", "h", "a", "i", "k",
        "u">>,
      <<"s", "t", "a", "r", "c", "o", "d", "e", "r">>,
      <<"d", "e", "e", "p", "s", "e", "e", "k", "-", "c", "o", "d", "e",
        "r", "-", "v", "2", "-", "l", "i", "t", "e", "-", "b", "a", "s",
        "e">>,
      <<"g", "e", "m", "i", "n", "i", "-", "1", ".", "5", "-", "p", "r",
        "o">>,
      <<"g", "e", "m", "i", "n", "i", "-", "1", ".", "5", "-", "f", "l",
        "a", "s", "h">>,
      <<"g", "p", "t", "-", "4", "o">>,
      <<"c", "o", "d", "y", "-", "c", "h", "a", "t", "-", "p", "r", "e",
        "v", "i", "e", "w", "-", "0", "0", "1">>,
      <<"c", "o", "d", "y", "-", "c", "h", "a", "t", "-", "p", "r", "e",
        "v", "i", "e", "w", "-", "0", "0", "2">>
    }

ProviderRun == program.name = "provider"

\* The model argument is the short name of no model of the list.
UnknownModel ==
    ~program.model.set \/ program.model.text \notin ShortNames

C29_ExitStatus ==
    ProviderRun =>
        /\ UnknownModel =>
              /\ program.requests = 0
              /\ program.pc \in {"start", "main", "exited"}
              /\ program.exited => program.status = 1
        /\ (program.exited /\ program.status = 0) =>
              /\ program.requests = 1
              /\ program.response = "ok"
              /\ Len(program.printed) = 1
        /\ (program.exited /\ program.response = "not ok") =>
              program.status = 1
        /\ program.exited <=> program.pc = "exited"
        /\ program.status \in {0, 1}

\* A step of the script goes on towards its exit, and prints only with the
\* exit of status 0.
C29_Step ==
    ProviderRun =>
        /\ <<program.pc, program'.pc>> \in
              { <<"start", "main">>, <<"start", "exited">>,
                <<"main", "requested">>, <<"main", "exited">>,
                <<"requested", "exited">> }
        /\ program'.printed # <<>> =>
              program'.exited /\ program'.status = 0

\* C29: with a model argument that is the short name of no listed model
\* the script sends no request and exits with status 1; it exits with
\* status 0 only after its one request got an ok response and the reply
\* was printed, and with status 1 after a response that is not ok.
C29_ProviderExitStatus ==
    /\ [](C29_ExitStatus)
    /\ [][C29_Step]_vars

\* C29 witness: the argument was the full identifier of a listed model,
\* with both variables and the prompt given; the script has exited with
\* status 1 and "Unknown model", and no request was sent.
C29_Witness ==
    /\ ProviderRun
    /\ program.model = SetTo(Models[8])
    /\ program.exited /\ program.status = 1
    /\ program.error = "Unknown model"
    /\ program.requests = 0

\* C29 witness: the argument was a short name, and the script has exited
\* with status 0 after it printed the reply.
C29_WitnessSuccess ==
    /\ ProviderRun
    /\ program.model = SetTo(<<"g", "p", "t", "-", "4", "o">>)
    /\ program.sent = SetTo(Models[8])
    /\ program.exited /\ program.status = 0
    /\ program.printed = <<(<<"h", "i">>)>>
====
